---- MODULE Spec2Model ----
(***************************************************************************)
(* Wallet statistics and FIFO profit accounting of src/src/analyze.ts.     *)
(*                                                                         *)
(* Numbers: sizes and prices are JavaScript numbers in the source.  The    *)
(* model keeps them exact: a size is a whole number of shares, a price a   *)
(* whole number of price ticks, and a quotient is an exact fraction        *)
(* <<numerator, denominator>> in lowest terms.  Rounding of IEEE doubles   *)
(* is outside the model.                                                   *)
(*                                                                         *)
(* An optional field that is absent holds Undefined (numbers) or           *)
(* UndefinedStr (strings).  The display label `outcome` of a trade is      *)
(* passed through by the source and never read by a computation; the       *)
(* model leaves it out.                                                    *)
(***************************************************************************)
EXTENDS Integers, Sequences, FiniteSets, TLC

\* ---------------------------------------------------------------- bounds
MaxLen == 3
MaxReportLen == 2
MaxTrackLen == 3
MaxLoopLen == 2
MaxRankLen == 3
MaxLines == 2
MaxLedgerLen == 3
MaxOrderLen == 3
MaxPersistLen == 2
MaxSessions == 3
MaxMessages == 3

\* ------------------------------------------------------------ data model
Undefined == -1
UndefinedStr == "undefined"

Sides == {"BUY", "SELL"}
Sizes == {1, 2}
Prices == {1, 2}
CurrentPrices == {3}
OutcomeIndices == {0, 1}

\* The wallet every call asks about, and the wallet strings trades carry.
QueriedWallet == "0xABC"
BaseWallet == "0xabc"
OtherWallet == "0xdef"

\* Mutant: wallet strings are compared as written.
ToLowerCaseIdentity(w) == w

\* String.prototype.toLowerCase on the wallet strings of the model.
ToLowerCase(w) ==
  CASE w = "0xABC" -> "0xabc"
    [] w = "0xDEF" -> "0xdef"
    [] OTHER -> w

\* x || 0 on an optional number: undefined and 0 both give 0.
OrZero(x) == IF x = Undefined THEN 0 ELSE x

Min(a, b) == IF a <= b THEN a ELSE b

\* ------------------------------------------------------- exact quotients
Abs(n) == IF n < 0 THEN -n ELSE n

RECURSIVE Gcd(_, _)
Gcd(a, b) == IF b = 0 THEN a ELSE Gcd(b, a % b)

\* n / d for d > 0, in lowest terms.
Quot(n, d) ==
  LET g == Gcd(Abs(n), d) IN <<n \div g, d \div g>>

RatOfInt(n) == <<n, 1>>
RatAdd(p, q) == Quot(p[1] * q[2] + q[1] * p[2], p[2] * q[2])
RatSub(p, q) == Quot(p[1] * q[2] - q[1] * p[2], p[2] * q[2])
RatMulInt(p, n) == Quot(p[1] * n, p[2])

\* ------------------------------------------------------ array primitives
RECURSIVE SumInts(_)
SumInts(ns) == IF ns = <<>> THEN 0 ELSE Head(ns) + SumInts(Tail(ns))


\* Mutant: a missing timestamp sorts last instead of as 0.
TimestampKeyMissingLast(o) ==
  IF o.onChainTimestamp = Undefined THEN 1000 ELSE o.onChainTimestamp

TimestampKey(o) == OrZero(o.onChainTimestamp)

RECURSIVE InsertByTimestampBeforeTies(_, _)
\* Mutant: an unstable sort, which puts o in front of the elements of its
\* own key.
InsertByTimestampBeforeTies(sorted, o) ==
  IF sorted = <<>> THEN <<o>>
  ELSE IF TimestampKey(Head(sorted)) < TimestampKey(o)
       THEN <<Head(sorted)>> \o InsertByTimestampBeforeTies(Tail(sorted), o)
       ELSE <<o>> \o sorted

RECURSIVE InsertByTimestamp(_, _)
\* Puts o behind every element whose key is not larger: equal keys keep
\* their input order, as Array.prototype.sort (stable) does.
InsertByTimestamp(sorted, o) ==
  IF sorted = <<>> THEN <<o>>
  ELSE IF TimestampKey(Head(sorted)) <= TimestampKey(o)
       THEN <<Head(sorted)>> \o InsertByTimestamp(Tail(sorted), o)
       ELSE <<o>> \o sorted

RECURSIVE SortByTimestamp(_)
\* .sort((a, b) => (a.onChainTimestamp || 0) - (b.onChainTimestamp || 0))
SortByTimestamp(s) ==
  IF s = <<>> THEN <<>>
  ELSE InsertByTimestamp(SortByTimestamp(SubSeq(s, 1, Len(s) - 1)), s[Len(s)])

\* o.wallet?.toLowerCase() === wallet.toLowerCase()
IsWalletOrder(o, w) ==
  o.wallet # UndefinedStr /\ ToLowerCase(o.wallet) = ToLowerCase(w)

WalletOrdersOf(os, w) == SelectSeq(os, LAMBDA o : IsWalletOrder(o, w))

\* ------------------------------------------------------- getWalletStats
OrderSize(o) == OrZero(o.size)
OrderValue(o) == OrZero(o.size) * OrZero(o.price)
\* reduce((sum, o) => sum + (o.size || 0), 0)
SumSizes(os) == SumInts([i \in DOMAIN os |-> OrderSize(os[i])])
\* reduce((sum, o) => sum + (o.size || 0) * (o.price || 0), 0)
SumValues(os) == SumInts([i \in DOMAIN os |-> OrderValue(os[i])])
IsBuy(o) == o.side = "BUY"
IsSell(o) == o.side = "SELL"

\* total > 0 ? value / total : 0
AverageOf(value, total) == IF total > 0 THEN Quot(value, total) ELSE RatOfInt(0)

\* Mutant: the average prices are plain means over the trades, not weighted
\* by size.
GetWalletStatsPlainMean(os, w) ==
  LET walletOrdersL == WalletOrdersOf(os, w)
      buyOrders == SelectSeq(walletOrdersL, IsBuy)
      sellOrders == SelectSeq(walletOrdersL, IsSell)
      totalBuyVolume == SumSizes(buyOrders)
      totalSellVolume == SumSizes(sellOrders)
  IN [wallet |-> w,
      totalTrades |-> Len(walletOrdersL),
      buyCount |-> Len(buyOrders),
      sellCount |-> Len(sellOrders),
      totalBuyVolume |-> totalBuyVolume,
      totalSellVolume |-> totalSellVolume,
      averageBuyPrice |->
        AverageOf(SumInts([i \in DOMAIN buyOrders |-> OrZero(buyOrders[i].price)]),
                  Len(buyOrders)),
      averageSellPrice |->
        AverageOf(SumInts([i \in DOMAIN sellOrders |-> OrZero(sellOrders[i].price)]),
                  Len(sellOrders)),
      totalVolume |-> totalBuyVolume + totalSellVolume]

GetWalletStats(os, w) ==
  LET walletOrdersL == WalletOrdersOf(os, w)
      buyOrders == SelectSeq(walletOrdersL, IsBuy)
      sellOrders == SelectSeq(walletOrdersL, IsSell)
      totalBuyVolume == SumSizes(buyOrders)
      totalSellVolume == SumSizes(sellOrders)
      totalBuyValue == SumValues(buyOrders)
      totalSellValue == SumValues(sellOrders)
  IN [wallet |-> w,
      totalTrades |-> Len(walletOrdersL),
      buyCount |-> Len(buyOrders),
      sellCount |-> Len(sellOrders),
      totalBuyVolume |-> totalBuyVolume,
      totalSellVolume |-> totalSellVolume,
      averageBuyPrice |-> AverageOf(totalBuyValue, totalBuyVolume),
      averageSellPrice |-> AverageOf(totalSellValue, totalSellVolume),
      totalVolume |-> totalBuyVolume + totalSellVolume]

\* ------------------------------------------- calculateWalletProfit: FIFO
\* profitByOutcome is a Map in insertion order: a sequence of entries, at
\* most one per outcomeIndex.
MapHas(m, key) == \E j \in DOMAIN m : m[j].outcomeIndex = key
MapIndex(m, key) == CHOOSE j \in DOMAIN m : m[j].outcomeIndex = key
MapGet(m, key) == m[MapIndex(m, key)]

NewOutcomeData(outcomeIndex) ==
  [outcomeIndex |-> outcomeIndex,
   realizedProfit |-> 0,
   openPosition |-> 0,
   averageBuyPrice |-> RatOfInt(0),
   averageSellPrice |-> RatOfInt(0),
   buyQueue |-> <<>>]

\* Mutant: the new lot goes to the head of the queue.
PushBuyFront(data, size, price) ==
  [data EXCEPT !.buyQueue = <<[size |-> size, price |-> price]>> \o @,
               !.openPosition = @ + size]

\* Mutant: a BUY first covers an open short; only the rest becomes a lot.
PushBuyNetting(data, size, price) ==
  LET cover == IF data.openPosition < 0 THEN Min(size, -data.openPosition) ELSE 0
  IN [data EXCEPT !.buyQueue = Append(@, [size |-> size - cover, price |-> price]),
                  !.openPosition = @ + size]

\* outcomeData.buyQueue.push({ size, price }); outcomeData.openPosition += size
PushBuy(data, size, price) ==
  [data EXCEPT !.buyQueue = Append(@, [size |-> size, price |-> price]),
               !.openPosition = @ + size]

RECURSIVE MatchLoopNewestFirst(_, _, _)
\* Mutant: the SELL takes the newest lot first.
MatchLoopNewestFirst(data, remainingSell, price) ==
  IF remainingSell > 0 /\ Len(data.buyQueue) > 0
  THEN LET n == Len(data.buyQueue)
           buyOrder == data.buyQueue[n]
           matchedSize == Min(remainingSell, buyOrder.size)
           profit == (price - buyOrder.price) * matchedSize
           left == buyOrder.size - matchedSize
           queue == IF left <= 0
                    THEN SubSeq(data.buyQueue, 1, n - 1)
                    ELSE [data.buyQueue EXCEPT ![n].size = left]
       IN MatchLoopNewestFirst([data EXCEPT !.realizedProfit = @ + profit,
                                            !.openPosition = @ - matchedSize,
                                            !.buyQueue = queue],
                               remainingSell - matchedSize, price)
  ELSE [data |-> data, remainingSell |-> remainingSell]

RECURSIVE MatchLoopWholeLotCost(_, _, _)
\* Mutant: a match is charged the cost of the whole lot it meets.
MatchLoopWholeLotCost(data, remainingSell, price) ==
  IF remainingSell > 0 /\ Len(data.buyQueue) > 0
  THEN LET buyOrder == data.buyQueue[1]
           matchedSize == Min(remainingSell, buyOrder.size)
           profit == price * matchedSize - buyOrder.price * buyOrder.size
           left == buyOrder.size - matchedSize
           queue == IF left <= 0
                    THEN Tail(data.buyQueue)
                    ELSE [data.buyQueue EXCEPT ![1].size = left]
       IN MatchLoopWholeLotCost([data EXCEPT !.realizedProfit = @ + profit,
                                             !.openPosition = @ - matchedSize,
                                             !.buyQueue = queue],
                                remainingSell - matchedSize, price)
  ELSE [data |-> data, remainingSell |-> remainingSell]

RECURSIVE MatchLoop(_, _, _)
\* The while loop of a SELL: the outcome data and the sell size left over
\* when the loop ends.
MatchLoop(data, remainingSell, price) ==
  IF remainingSell > 0 /\ Len(data.buyQueue) > 0
  THEN LET buyOrder == data.buyQueue[1]
           matchedSize == Min(remainingSell, buyOrder.size)
           profit == (price - buyOrder.price) * matchedSize
           left == buyOrder.size - matchedSize
           queue == IF left <= 0
                    THEN Tail(data.buyQueue)
                    ELSE [data.buyQueue EXCEPT ![1].size = left]
       IN MatchLoop([data EXCEPT !.realizedProfit = @ + profit,
                                 !.openPosition = @ - matchedSize,
                                 !.buyQueue = queue],
                    remainingSell - matchedSize, price)
  ELSE [data |-> data, remainingSell |-> remainingSell]

\* Mutant: the unmatched remainder of a SELL is dropped.
MatchSellNoShort(data, size, price) == MatchLoop(data, size, price).data

\* Mutant: an oversell takes the whole sell size off the position again.
MatchSellWholeSize(data, size, price) ==
  LET after == MatchLoop(data, size, price)
  IN IF after.remainingSell > 0
     THEN [after.data EXCEPT !.openPosition = @ - size]
     ELSE after.data

\* A SELL: the FIFO matching, then the unmatched remainder as a short.
MatchSell(data, size, price) ==
  LET after == MatchLoop(data, size, price)
  IN IF after.remainingSell > 0
     THEN [after.data EXCEPT !.openPosition = @ - after.remainingSell]
     ELSE after.data

\* Mutant: no early return; a trade without outcomeIndex gets a bucket of
\* its own.
\* Mutant: every outcome trades on the ledger of the first outcome seen.
ProcessOneSharedLedger(m, order) ==
  IF order.outcomeIndex = Undefined THEN m
  ELSE LET m1 == IF MapHas(m, order.outcomeIndex) THEN m
                 ELSE Append(m, NewOutcomeData(order.outcomeIndex))
           size == OrZero(order.size)
           price == OrZero(order.price)
       IN IF order.side = "BUY"
          THEN [m1 EXCEPT ![1] = PushBuy(@, size, price)]
          ELSE IF order.side = "SELL"
               THEN [m1 EXCEPT ![1] = MatchSell(@, size, price)]
               ELSE m1

ProcessOneKeepingUndefined(m, order) ==
  LET m1 == IF MapHas(m, order.outcomeIndex) THEN m
            ELSE Append(m, NewOutcomeData(order.outcomeIndex))
      j == MapIndex(m1, order.outcomeIndex)
      size == OrZero(order.size)
      price == OrZero(order.price)
  IN IF order.side = "BUY"
     THEN [m1 EXCEPT ![j] = PushBuy(@, size, price)]
     ELSE IF order.side = "SELL"
          THEN [m1 EXCEPT ![j] = MatchSell(@, size, price)]
          ELSE m1

\* One iteration of walletOrders.forEach.
ProcessOne(m, order) ==
  IF order.outcomeIndex = Undefined THEN m
  ELSE LET m1 == IF MapHas(m, order.outcomeIndex) THEN m
                 ELSE Append(m, NewOutcomeData(order.outcomeIndex))
           j == MapIndex(m1, order.outcomeIndex)
           size == OrZero(order.size)
           price == OrZero(order.price)
       IN IF order.side = "BUY"
          THEN [m1 EXCEPT ![j] = PushBuy(@, size, price)]
          ELSE IF order.side = "SELL"
               THEN [m1 EXCEPT ![j] = MatchSell(@, size, price)]
               ELSE m1

\* ---------------------------------------- calculateWalletProfit: totals
NoMap == <<>>
\* currentPrice && currentPrice.has(outcomeIndex)
HasCurrentPrice(cp, outcomeIndex) ==
  cp # NoMap /\ \E e \in cp[1] : e[1] = outcomeIndex
GetCurrentPrice(cp, outcomeIndex) ==
  (CHOOSE e \in cp[1] : e[1] = outcomeIndex)[2]

\* data.buyQueue.reduce((sum, b) => sum + b.size, 0)
RemainingBuySize(q) == SumInts([i \in DOMAIN q |-> q[i].size])
\* data.buyQueue.reduce((sum, b) => sum + b.size * b.price, 0)
RemainingBuyValue(q) == SumInts([i \in DOMAIN q |-> q[i].size * q[i].price])

\* Mutant: the openPosition > 0 test is missing.
UnrealizedIgnoringPosition(data, cp) ==
  LET remainingBuyValue == RemainingBuyValue(data.buyQueue)
      remainingBuySize == RemainingBuySize(data.buyQueue)
      avgRemainingBuyPrice == AverageOf(remainingBuyValue, remainingBuySize)
  IN IF HasCurrentPrice(cp, data.outcomeIndex)
     THEN RatMulInt(RatSub(RatOfInt(GetCurrentPrice(cp, data.outcomeIndex)),
                           avgRemainingBuyPrice),
                    data.openPosition)
     ELSE RatOfInt(0)

\* let unrealized = 0; if (currentPrice && ... && data.openPosition > 0) ...
UnrealizedOf(data, cp) ==
  LET remainingBuyValue == RemainingBuyValue(data.buyQueue)
      remainingBuySize == RemainingBuySize(data.buyQueue)
      avgRemainingBuyPrice == AverageOf(remainingBuyValue, remainingBuySize)
  IN IF HasCurrentPrice(cp, data.outcomeIndex) /\ data.openPosition > 0
     THEN RatMulInt(RatSub(RatOfInt(GetCurrentPrice(cp, data.outcomeIndex)),
                           avgRemainingBuyPrice),
                    data.openPosition)
     ELSE RatOfInt(0)

OutcomeOrders(wos, outcomeIndex) ==
  SelectSeq(wos, LAMBDA o : o.outcomeIndex = outcomeIndex)
OutcomeTotalCost(wos, outcomeIndex) ==
  SumValues(SelectSeq(OutcomeOrders(wos, outcomeIndex), IsBuy))
OutcomeTotalRevenue(wos, outcomeIndex) ==
  SumValues(SelectSeq(OutcomeOrders(wos, outcomeIndex), IsSell))
OutcomeAverageBuyPrice(wos, outcomeIndex) ==
  AverageOf(OutcomeTotalCost(wos, outcomeIndex),
            SumSizes(SelectSeq(OutcomeOrders(wos, outcomeIndex), IsBuy)))
OutcomeAverageSellPrice(wos, outcomeIndex) ==
  AverageOf(OutcomeTotalRevenue(wos, outcomeIndex),
            SumSizes(SelectSeq(OutcomeOrders(wos, outcomeIndex), IsSell)))

ZeroTotals ==
  [totalCost |-> 0,
   totalRevenue |-> 0,
   totalRealizedProfit |-> 0,
   totalUnrealizedProfit |-> RatOfInt(0),
   totalOpenPosition |-> 0]

\* Mutant: totalCost and totalRevenue are assigned, not accumulated.
AddToTotalsAssigning(t, wos, data, unrealizedL) ==
  [totalCost |-> OutcomeTotalCost(wos, data.outcomeIndex),
   totalRevenue |-> OutcomeTotalRevenue(wos, data.outcomeIndex),
   totalRealizedProfit |-> t.totalRealizedProfit + data.realizedProfit,
   totalUnrealizedProfit |-> RatAdd(t.totalUnrealizedProfit, unrealizedL),
   totalOpenPosition |-> t.totalOpenPosition + data.openPosition]

\* totalCost += outcomeTotalCost; ... totalOpenPosition += data.openPosition
AddToTotals(t, wos, data, unrealizedL) ==
  [totalCost |-> t.totalCost + OutcomeTotalCost(wos, data.outcomeIndex),
   totalRevenue |-> t.totalRevenue + OutcomeTotalRevenue(wos, data.outcomeIndex),
   totalRealizedProfit |-> t.totalRealizedProfit + data.realizedProfit,
   totalUnrealizedProfit |-> RatAdd(t.totalUnrealizedProfit, unrealizedL),
   totalOpenPosition |-> t.totalOpenPosition + data.openPosition]

RECURSIVE FoldTotals(_, _, _, _)
\* profitByOutcome.forEach in Map order, from the totals t.
FoldTotals(t, m, wos, cp) ==
  IF m = <<>> THEN t
  ELSE FoldTotals(AddToTotals(t, wos, Head(m), UnrealizedOf(Head(m), cp)),
                  Tail(m), wos, cp)

\* profitByOutcomeResult.set(outcomeIndex, {...}): the entry without its queue.
OutcomeResult(wos, data) ==
  [outcomeIndex |-> data.outcomeIndex,
   realizedProfit |-> data.realizedProfit,
   openPosition |-> data.openPosition,
   averageBuyPrice |-> OutcomeAverageBuyPrice(wos, data.outcomeIndex),
   averageSellPrice |-> OutcomeAverageSellPrice(wos, data.outcomeIndex)]

WalletProfitOf(w, t, byOutcome) ==
  [wallet |-> w,
   totalCost |-> t.totalCost,
   totalRevenue |-> t.totalRevenue,
   realizedProfit |-> t.totalRealizedProfit,
   unrealizedProfit |-> t.totalUnrealizedProfit,
   totalProfit |-> RatAdd(RatOfInt(t.totalRealizedProfit), t.totalUnrealizedProfit),
   openPosition |-> t.totalOpenPosition,
   profitByOutcome |-> byOutcome]

RECURSIVE ForEachOrder(_, _)
\* walletOrders.forEach from the Map m.
ForEachOrder(m, wos) ==
  IF wos = <<>> THEN m ELSE ForEachOrder(ProcessOne(m, Head(wos)), Tail(wos))

\* calculateWalletProfit as one function of its arguments.
CalculateWalletProfit(os, w, cp) ==
  LET wos == SortByTimestamp(WalletOrdersOf(os, w))
      m == ForEachOrder(<<>>, wos)
  IN WalletProfitOf(w, FoldTotals(ZeroTotals, m, wos, cp),
                    [j \in DOMAIN m |-> OutcomeResult(wos, m[j])])

\* ------------------------------------------------- ranking the wallets
RECURSIVE AddWallets(_, _)
\* orders.forEach((o) => { if (o.wallet) wallets.add(o.wallet.toLowerCase()) })
\* on a Set kept in insertion order.
AddWallets(wallets, os) ==
  IF os = <<>> THEN wallets
  ELSE LET o == Head(os)
           known == {wallets[i] : i \in DOMAIN wallets}
       IN IF o.wallet # UndefinedStr /\ ToLowerCase(o.wallet) \notin known
          THEN AddWallets(Append(wallets, ToLowerCase(o.wallet)), Tail(os))
          ELSE AddWallets(wallets, Tail(os))

GetAllWallets(os) == AddWallets(<<>>, os)

\* The Map of getAllWalletStats, in insertion order.
GetAllWalletStats(os) ==
  LET wallets == GetAllWallets(os)
  IN [i \in DOMAIN wallets |-> GetWalletStats(os, wallets[i])]

RECURSIVE InsertDescending(_, _, _)
\* Puts index i behind every index whose key is not smaller.
InsertDescending(sorted, i, keys) ==
  IF sorted = <<>> THEN <<i>>
  ELSE IF keys[Head(sorted)] >= keys[i]
       THEN <<Head(sorted)>> \o InsertDescending(Tail(sorted), i, keys)
       ELSE <<i>> \o sorted

RECURSIVE DescendingOrder(_, _)
\* The indices 1..n in the order .sort((a, b) => b.key - a.key) gives (stable).
DescendingOrder(keys, n) ==
  IF n = 0 THEN <<>>
  ELSE InsertDescending(DescendingOrder(keys, n - 1), n, keys)

\* Mutant: the list is returned as built, the sort forgotten.
SortDescendingForgotten(items, keys) == items

SortDescending(items, keys) ==
  LET order == DescendingOrder(keys, Len(items))
  IN [i \in DOMAIN items |-> items[order[i]]]

Max(a, b) == IF a >= b THEN a ELSE b

\* Array.prototype.slice(0, limit)
Slice(items, limit) ==
  SubSeq(items, 1, IF limit < 0 THEN Max(Len(items) + limit, 0)
                   ELSE Min(limit, Len(items)))

GetTopWalletsByTradeCount(os, limit) ==
  LET all == GetAllWalletStats(os)
  IN Slice(SortDescending(all, [i \in DOMAIN all |-> all[i].totalTrades]), limit)

GetTopWalletsByVolume(os, limit) ==
  LET all == GetAllWalletStats(os)
  IN Slice(SortDescending(all, [i \in DOMAIN all |-> all[i].totalVolume]), limit)

GetTopWalletsByProfit(os, limit, cp) ==
  LET wallets == GetAllWallets(os)
      profits == [i \in DOMAIN wallets |-> CalculateWalletProfit(os, wallets[i], cp)]
      top == Slice(SortDescending(profits,
                                  [i \in DOMAIN profits |-> profits[i].realizedProfit]),
                   limit)
  IN [i \in DOMAIN top |-> [rank |-> i, profit |-> top[i]]]

\* --------------------------------------------------------- analyzeByPrice
\* outcomeIndex !== undefined ? orders.filter(...) : orders
FilterByOutcome(os, outcomeIndex) ==
  IF outcomeIndex # Undefined
  THEN SelectSeq(os, LAMBDA o : o.outcomeIndex = outcomeIndex)
  ELSE os

PriceHas(m, price) == \E j \in DOMAIN m : m[j].price = price
PriceIndex(m, price) == CHOOSE j \in DOMAIN m : m[j].price = price

NewPriceLevel(price, outcomeIndex) ==
  [price |-> price, buyWallets |-> {}, sellWallets |-> {},
   buyVolume |-> 0, sellVolume |-> 0, buyTrades |-> 0, sellTrades |-> 0,
   wallets |-> {}, outcomeIndex |-> outcomeIndex]

\* Mutant: a trade without wallet is counted too.
AddToPriceMapAnyWallet(m, order, outcomeIndex) ==
  IF order.price = Undefined THEN m
  ELSE LET m1 == IF PriceHas(m, order.price) THEN m
                 ELSE Append(m, NewPriceLevel(order.price, outcomeIndex))
           j == PriceIndex(m1, order.price)
           size == OrZero(order.size)
       IN IF order.side = "BUY"
          THEN [m1 EXCEPT ![j].buyVolume = @ + size, ![j].buyTrades = @ + 1]
          ELSE IF order.side = "SELL"
               THEN [m1 EXCEPT ![j].sellVolume = @ + size, ![j].sellTrades = @ + 1]
               ELSE m1

\* One iteration of filteredOrders.forEach.
AddToPriceMap(m, order, outcomeIndex) ==
  IF order.price = Undefined THEN m
  ELSE IF order.wallet = UndefinedStr THEN m
  ELSE LET m1 == IF PriceHas(m, order.price) THEN m
                 ELSE Append(m, NewPriceLevel(order.price, outcomeIndex))
           j == PriceIndex(m1, order.price)
           size == OrZero(order.size)
           wallet == ToLowerCase(order.wallet)
           m2 == [m1 EXCEPT ![j].wallets = @ \cup {wallet}]
       IN IF order.side = "BUY"
          THEN [m2 EXCEPT ![j].buyVolume = @ + size,
                          ![j].buyTrades = @ + 1,
                          ![j].buyWallets = @ \cup {wallet}]
          ELSE IF order.side = "SELL"
               THEN [m2 EXCEPT ![j].sellVolume = @ + size,
                               ![j].sellTrades = @ + 1,
                               ![j].sellWallets = @ \cup {wallet}]
               ELSE m2

RECURSIVE BuildPriceMap(_, _, _)
BuildPriceMap(m, os, outcomeIndex) ==
  IF os = <<>> THEN m
  ELSE BuildPriceMap(AddToPriceMap(m, Head(os), outcomeIndex), Tail(os), outcomeIndex)

\* "Convert to final format": the wallet sets become counts.
PriceLevelStats(data) ==
  [price |-> data.price,
   buyWallets |-> Cardinality(data.buyWallets),
   sellWallets |-> Cardinality(data.sellWallets),
   buyVolume |-> data.buyVolume,
   sellVolume |-> data.sellVolume,
   buyTrades |-> data.buyTrades,
   sellTrades |-> data.sellTrades,
   totalVolume |-> data.buyVolume + data.sellVolume,
   totalTrades |-> data.buyTrades + data.sellTrades,
   wallets |-> data.wallets,
   outcomeIndex |-> data.outcomeIndex]

\* The result Map, in insertion order.
AnalyzeByPrice(os, outcomeIndex) ==
  LET m == BuildPriceMap(<<>>, FilterByOutcome(os, outcomeIndex), outcomeIndex)
  IN [j \in DOMAIN m |-> PriceLevelStats(m[j])]

\* null, or the entry found, as a sequence of length 0 or 1.
Null == <<>>
\* Mutant: a price that was never traded gets a zero-valued entry, not null.
GetPriceStatsZeroEntry(os, price, outcomeIndex) ==
  LET m == AnalyzeByPrice(os, outcomeIndex)
  IN IF PriceHas(m, price) THEN <<m[PriceIndex(m, price)]>>
     ELSE <<PriceLevelStats(NewPriceLevel(price, outcomeIndex))>>

\* priceMap.get(price) || null
GetPriceStats(os, price, outcomeIndex) ==
  LET m == AnalyzeByPrice(os, outcomeIndex)
  IN IF PriceHas(m, price) THEN <<m[PriceIndex(m, price)]>> ELSE Null

\* ------------------------------------------------------ price over time
HasTimestamp(o) == o.onChainTimestamp # Undefined

\* filteredOrders.filter(has timestamp).sort(by timestamp)
SortedWithTimestamp(os) == SortByTimestamp(SelectSeq(os, HasTimestamp))

\* Mutant: the snapshot is stamped with the time of the window's first trade.
PriceSnapshotAtFirstTrade(timestamp, bucketOrders, outcomeIndex) ==
  [timestamp |-> bucketOrders[1].onChainTimestamp,
   price |-> AverageOf(SumValues(bucketOrders), SumSizes(bucketOrders)),
   outcomeIndex |-> outcomeIndex,
   volume |-> SumSizes(bucketOrders),
   trades |-> Len(bucketOrders)]

PriceSnapshot(timestamp, bucketOrders, outcomeIndex) ==
  [timestamp |-> timestamp,
   price |-> AverageOf(SumValues(bucketOrders), SumSizes(bucketOrders)),
   outcomeIndex |-> outcomeIndex,
   volume |-> SumSizes(bucketOrders),
   trades |-> Len(bucketOrders)]

RECURSIVE BucketLoop(_, _, _, _, _)
\* while (currentBucketStart <= lastTimestamp), for intervalSeconds > 0.
BucketLoop(sorted, currentBucketStart, lastTimestamp, intervalSeconds, outcomeIndex) ==
  IF currentBucketStart <= lastTimestamp
  THEN LET bucketEnd == currentBucketStart + intervalSeconds
           bucketOrders ==
             SelectSeq(sorted, LAMBDA o : /\ o.onChainTimestamp >= currentBucketStart
                                          /\ o.onChainTimestamp < bucketEnd)
       IN (IF Len(bucketOrders) > 0
           THEN <<PriceSnapshot(currentBucketStart, bucketOrders, outcomeIndex)>>
           ELSE <<>>)
          \o BucketLoop(sorted, bucketEnd, lastTimestamp, intervalSeconds, outcomeIndex)
  ELSE <<>>

TrackPriceOverTime(os, intervalSeconds, outcomeIndex) ==
  LET filteredOrders == FilterByOutcome(os, outcomeIndex)
      sortedOrders == SortedWithTimestamp(filteredOrders)
  IN IF Len(filteredOrders) = 0 THEN <<>>
     ELSE IF Len(sortedOrders) = 0 THEN <<>>
     ELSE BucketLoop(sortedOrders, sortedOrders[1].onChainTimestamp,
                     sortedOrders[Len(sortedOrders)].onChainTimestamp,
                     intervalSeconds, outcomeIndex)

RECURSIVE AscendingSeq(_)
\* Array.from(timestampMap.keys()).sort((a, b) => a - b)
AscendingSeq(S) ==
  IF S = {} THEN <<>>
  ELSE LET least == CHOOSE x \in S : \A y \in S : x <= y
       IN <<least>> \o AscendingSeq(S \ {least})

WalletsOf(os) ==
  {ToLowerCase(os[i].wallet) : i \in {n \in DOMAIN os : os[n].wallet # UndefinedStr}}

\* Mutant: the BUY price and volume are taken over all trades at the
\* timestamp.
DetailedPriceSnapshotMixedSides(timestamp, timestampOrders, outcomeIndex) ==
  LET buyOrders == SelectSeq(timestampOrders, IsBuy)
      sellOrders == SelectSeq(timestampOrders, IsSell)
  IN [timestamp |-> timestamp,
      outcomeIndex |-> outcomeIndex,
      buyPrice |-> AverageOf(SumValues(timestampOrders), SumSizes(timestampOrders)),
      buyRecords |-> Len(buyOrders),
      buyWallets |-> Cardinality(WalletsOf(buyOrders)),
      buyVolume |-> SumSizes(timestampOrders),
      sellPrice |-> AverageOf(SumValues(sellOrders), SumSizes(sellOrders)),
      sellRecords |-> Len(sellOrders),
      sellWallets |-> Cardinality(WalletsOf(sellOrders)),
      sellVolume |-> SumSizes(sellOrders),
      totalRecords |-> Len(timestampOrders),
      totalWallets |-> Cardinality(WalletsOf(timestampOrders)),
      totalVolume |-> SumSizes(timestampOrders) + SumSizes(sellOrders)]

\* One iteration of sortedTimestamps.forEach.
DetailedPriceSnapshot(timestamp, timestampOrders, outcomeIndex) ==
  LET buyOrders == SelectSeq(timestampOrders, IsBuy)
      sellOrders == SelectSeq(timestampOrders, IsSell)
  IN [timestamp |-> timestamp,
      outcomeIndex |-> outcomeIndex,
      buyPrice |-> AverageOf(SumValues(buyOrders), SumSizes(buyOrders)),
      buyRecords |-> Len(buyOrders),
      buyWallets |-> Cardinality(WalletsOf(buyOrders)),
      buyVolume |-> SumSizes(buyOrders),
      sellPrice |-> AverageOf(SumValues(sellOrders), SumSizes(sellOrders)),
      sellRecords |-> Len(sellOrders),
      sellWallets |-> Cardinality(WalletsOf(sellOrders)),
      sellVolume |-> SumSizes(sellOrders),
      totalRecords |-> Len(timestampOrders),
      totalWallets |-> Cardinality(WalletsOf(timestampOrders)),
      totalVolume |-> SumSizes(buyOrders) + SumSizes(sellOrders)]

TrackPriceByTimestamp(os, outcomeIndex) ==
  LET filteredOrders == FilterByOutcome(os, outcomeIndex)
      sortedOrders == SortedWithTimestamp(filteredOrders)
      sortedTimestamps ==
        AscendingSeq({sortedOrders[i].onChainTimestamp : i \in DOMAIN sortedOrders})
  IN IF Len(filteredOrders) = 0 THEN <<>>
     ELSE IF Len(sortedOrders) = 0 THEN <<>>
     ELSE [n \in DOMAIN sortedTimestamps |->
             DetailedPriceSnapshot(
               sortedTimestamps[n],
               SelectSeq(sortedOrders,
                         LAMBDA o : o.onChainTimestamp = sortedTimestamps[n]),
               outcomeIndex)]

\* ----------------------------------------------- what a call does to its input
\* An array is the caller's `orders` array or a new one.
InputArray == "orders"
NewArray == "new"

\* Mutant: the filter step hands on the array it was given.
RefAfterFilterSameArray(ref) == ref

\* Array.prototype.filter returns a new array.
RefAfterFilter(ref) == NewArray

\* outcomeIndex !== undefined ? orders.filter(...) : orders
RefAfterOutcomeFilter(ref, outcomeIndex) ==
  IF outcomeIndex # Undefined THEN RefAfterFilter(ref) ELSE ref

\* Array.prototype.sort sorts the array it is called on in place: the
\* caller's array takes the sorted contents when that array is the target.
InputAfterSort(ref, os, sorted) == IF ref = InputArray THEN sorted ELSE os

\* getWalletStats: filter and reduce only.
InputAfterGetWalletStats(os, w) == os

\* calculateWalletProfit: orders.filter(...).sort(...); the lots of the
\* queue are new { size, price } objects, and matching writes to them only.
InputAfterCalculateWalletProfit(os, w) ==
  InputAfterSort(RefAfterFilter(InputArray), os,
                 SortByTimestamp(WalletOrdersOf(os, w)))

RECURSIVE InputAfterProfits(_, _)
\* wallets.map((wallet) => calculateWalletProfit(orders, wallet, currentPrice))
InputAfterProfits(os, wallets) ==
  IF wallets = <<>> THEN os
  ELSE InputAfterProfits(InputAfterCalculateWalletProfit(os, Head(wallets)),
                         Tail(wallets))

\* getTopWalletsByProfit sorts `profits`, a new array made by map.
InputAfterGetTopWalletsByProfit(os) == InputAfterProfits(os, GetAllWallets(os))

\* getTopWalletsByTradeCount, getTopWalletsByVolume: Array.from(...).sort.
InputAfterGetTopWalletsByStats(os) == os

\* analyzeByPrice, getPriceStats: forEach over filteredOrders, reading only.
InputAfterAnalyzeByPrice(os, outcomeIndex) == os

\* trackPriceOverTime, trackPriceByTimestamp:
\* filteredOrders.filter(has timestamp).sort(by timestamp)
InputAfterTrackPrice(os, outcomeIndex) ==
  InputAfterSort(RefAfterFilter(RefAfterOutcomeFilter(InputArray, outcomeIndex)), os,
                 SortedWithTimestamp(FilterByOutcome(os, outcomeIndex)))

\* ------------------------------------------------------------- the inputs
\* A plain trade: the queried wallet in lower case, outcome 0, and its
\* position in the input as timestamp.
PlainOrder(i, side, size, price) ==
  [wallet |-> BaseWallet, side |-> side, size |-> size, price |-> price,
   outcomeIndex |-> 0, onChainTimestamp |-> i - 1]

PlainInput(f) == [i \in DOMAIN f |-> PlainOrder(i, f[i][1], f[i][2], f[i][3])]

\* The trade with one field changed: another wallet or letter case, a
\* missing field, a zero size, the other outcome, an out-of-order timestamp.
Variants(t) ==
  {[t EXCEPT !.wallet = w] : w \in {QueriedWallet, OtherWallet, UndefinedStr}}
    \cup {[t EXCEPT !.side = UndefinedStr]}
    \cup {[t EXCEPT !.size = z] : z \in {Undefined, 0}}
    \cup {[t EXCEPT !.price = Undefined]}
    \cup {[t EXCEPT !.outcomeIndex = x] : x \in {1, Undefined}}
    \cup {[t EXCEPT !.onChainTimestamp = x] : x \in {Undefined, 0, 1, 2, 3}}

\* The plain collection s, and s with one trade replaced by a variant.
InputsAround(s) ==
  {s} \cup UNION {{[s EXCEPT ![i] = v] : v \in Variants(s[i])} : i \in DOMAIN s}

\* The trade collections of up to maxLen trades: plain trades, at most one
\* of them replaced by a variant.
IsInput(os, maxLen) ==
  \E n \in 0..maxLen : \E f \in [1..n -> Sides \X Sizes \X Prices] :
    os \in InputsAround(PlainInput(f))

\* The optional currentPrice argument: absent, or a Map (a set of
\* <<outcomeIndex, price>> entries wrapped in a one-element tuple) with a
\* price for outcome 0 only or for every outcome.
CurrentPriceArgs ==
  {NoMap} \cup
  {<<{<<x, c>> : x \in S}>> : S \in {{0}, OutcomeIndices}, c \in CurrentPrices}

\* The collections trackPriceOverTime is followed on: up to maxLen trades
\* with any of the timestamps TrackTimestamps, in any order, 1 share at 1
\* tick or 2 shares at 2 ticks, and at most one trade without timestamp,
\* size, price or outcome, or of the other outcome.
TrackTimestamps == {0, 1, 3}
TrackLots == {<<1, 1>>, <<2, 2>>}

TrackOrder(timestamp, lot) ==
  [wallet |-> BaseWallet, side |-> "BUY", size |-> lot[1], price |-> lot[2],
   outcomeIndex |-> 0, onChainTimestamp |-> timestamp]

TrackVariants(t) ==
  {[t EXCEPT !.onChainTimestamp = Undefined], [t EXCEPT !.size = Undefined],
   [t EXCEPT !.price = Undefined], [t EXCEPT !.outcomeIndex = Undefined],
   [t EXCEPT !.outcomeIndex = 1]}

IsTrackInput(os, maxLen) ==
  \E n \in 0..maxLen : \E f \in [1..n -> TrackTimestamps \X TrackLots] :
    LET plain == [i \in 1..n |-> TrackOrder(f[i][1], f[i][2])]
    IN \/ os = plain
       \/ \E i \in 1..n : \E v \in TrackVariants(plain[i]) : os = [plain EXCEPT ![i] = v]

\* intervalSeconds, and outcomeIndex, as trackPriceOverTime is followed.
TrackIntervals == {0, 1, 2}
TrackFilters == {Undefined, 0}

\* The collections the rankings are taken of: up to maxLen trades of any
\* of two wallets, one of them written in both letter cases, or of no
\* wallet, in input order, 1 share at 1 tick or 2 shares at 2 ticks.
RankWallets == {BaseWallet, QueriedWallet, OtherWallet, UndefinedStr}

RankOrder(i, wallet, side, lot) ==
  [wallet |-> wallet, side |-> side, size |-> lot[1], price |-> lot[2],
   outcomeIndex |-> 0, onChainTimestamp |-> i - 1]

IsRankInput(os, maxLen) ==
  \E n \in 0..maxLen : \E f \in [1..n -> RankWallets \X Sides \X TrackLots] :
    os = [i \in 1..n |-> RankOrder(i, f[i][1], f[i][2], f[i][3])]

\* The collections the per-outcome ledger is followed on: up to maxLen
\* trades of the queried wallet in time order, each a BUY or a SELL of
\* one of LedgerLots (<<size, price>>) in either outcome.
LedgerLots == {<<1, 1>>, <<1, 2>>, <<2, 2>>}

LedgerOrder(i, side, lot, outcomeIndex) ==
  [wallet |-> BaseWallet, side |-> side, size |-> lot[1], price |-> lot[2],
   outcomeIndex |-> outcomeIndex, onChainTimestamp |-> i - 1]

IsLedgerInput(os, maxLen) ==
  \E n \in 0..maxLen : \E f \in [1..n -> Sides \X LedgerLots \X OutcomeIndices] :
    os = [i \in 1..n |-> LedgerOrder(i, f[i][1], f[i][2], f[i][3])]

\* The collections the processing order is followed on: up to maxLen trades
\* of the queried wallet in outcome 0, each a BUY or a SELL of 1 share at 1
\* tick or 2 shares at 2 ticks, with timestamp 0 or 1 or none, in any order.
OrderTimestamps == {Undefined, 0, 1}

OrderedOrder(side, lot, timestamp) ==
  [wallet |-> BaseWallet, side |-> side, size |-> lot[1], price |-> lot[2],
   outcomeIndex |-> 0, onChainTimestamp |-> timestamp]

IsOrderInput(os, maxLen) ==
  \E n \in 0..maxLen : \E f \in [1..n -> Sides \X TrackLots \X OrderTimestamps] :
    os = [i \in 1..n |-> OrderedOrder(f[i][1], f[i][2], f[i][3])]

\* The arguments of the ranking and price functions.
Limits == {0, 1, 10}
OutcomeFilters == {Undefined} \cup OutcomeIndices
Intervals == {1}

\* The calls of the aggregators.
Callees ==
  {[fn |-> "getWalletStats"]}
    \cup {[fn |-> "calculateWalletProfit", currentPrice |-> cp] : cp \in CurrentPriceArgs}
    \cup {[fn |-> f, limit |-> n] :
            f \in {"getTopWalletsByTradeCount", "getTopWalletsByVolume",
                   "getTopWalletsByProfit"},
            n \in Limits}
    \cup {[fn |-> f, outcomeIndex |-> x] :
            f \in {"analyzeByPrice", "trackPriceByTimestamp"}, x \in OutcomeFilters}
    \cup {[fn |-> "trackPriceOverTime", outcomeIndex |-> x, intervalSeconds |-> n] :
            x \in OutcomeFilters, n \in Intervals}

\* What the call returns on the collection os.
ResultOf(c, os) ==
  CASE c.fn = "getWalletStats" -> GetWalletStats(os, QueriedWallet)
    [] c.fn = "calculateWalletProfit" ->
         CalculateWalletProfit(os, QueriedWallet, c.currentPrice)
    [] c.fn = "getTopWalletsByTradeCount" -> GetTopWalletsByTradeCount(os, c.limit)
    [] c.fn = "getTopWalletsByVolume" -> GetTopWalletsByVolume(os, c.limit)
    [] c.fn = "getTopWalletsByProfit" -> GetTopWalletsByProfit(os, c.limit, NoMap)
    [] c.fn = "analyzeByPrice" -> AnalyzeByPrice(os, c.outcomeIndex)
    [] c.fn = "trackPriceByTimestamp" -> TrackPriceByTimestamp(os, c.outcomeIndex)
    [] c.fn = "trackPriceOverTime" ->
         TrackPriceOverTime(os, c.intervalSeconds, c.outcomeIndex)

\* The contents of the caller's array after the call.
InputAfter(c, os) ==
  CASE c.fn = "getWalletStats" -> InputAfterGetWalletStats(os, QueriedWallet)
    [] c.fn = "calculateWalletProfit" ->
         InputAfterCalculateWalletProfit(os, QueriedWallet)
    [] c.fn \in {"getTopWalletsByTradeCount", "getTopWalletsByVolume"} ->
         InputAfterGetTopWalletsByStats(os)
    [] c.fn = "getTopWalletsByProfit" -> InputAfterGetTopWalletsByProfit(os)
    [] c.fn = "analyzeByPrice" -> InputAfterAnalyzeByPrice(os, c.outcomeIndex)
    [] c.fn \in {"trackPriceByTimestamp", "trackPriceOverTime"} ->
         InputAfterTrackPrice(os, c.outcomeIndex)

\* -------------------------------------------------------------- loaders
\* A line of a JSONL file: the text of a JSON object (with the record it
\* denotes), the text `null`, a text JSON.parse throws on, or white space.
JsonRecords == {PlainOrder(1, "BUY", 1, 1), PlainOrder(2, "SELL", 2, 2)}
JsonLines ==
  {[kind |-> "object", value |-> o] : o \in JsonRecords}
    \cup {[kind |-> "null"], [kind |-> "garbage"], [kind |-> "blank"]}

\* readOrdersMatched, lines 67-81: blank lines are filtered out, a line
\* that does not parse becomes null, and nulls, the parsed `null` with
\* them, are filtered out.
RECURSIVE ReadOrdersMatched(_)
ReadOrdersMatched(lines) ==
  IF lines = <<>> THEN <<>>
  ELSE IF Head(lines).kind = "object"
       THEN <<Head(lines).value>> \o ReadOrdersMatched(Tail(lines))
       ELSE ReadOrdersMatched(Tail(lines))

\* Number.NaN, as a value no size, price, index or timestamp has.
NaN == -2

\* parseFloat and parseInt(_, 10) on the field texts of the model.
ParseNumber(text) ==
  CASE text = "0" -> 0
    [] text = "1" -> 1
    [] text = "2" -> 2
    [] OTHER -> NaN

\* text || fallback: the empty string is falsy.
TextOr(text, fallback) == IF text = "" THEN fallback ELSE text
\* n || undefined: 0 and NaN are falsy.
NumberOrUndefined(n) == IF n = 0 \/ n = NaN THEN Undefined ELSE n
\* text || undefined
TextOrUndefined(text) == IF text = "" THEN UndefinedStr ELSE text

\* A line of a CSV file: the header, white space, or a row of `fields`
\* fields, of which the model keeps the texts of six.
CsvRows ==
  {[kind |-> "row", fields |-> n, wallet |-> BaseWallet, side |-> "BUY",
    size |-> size, price |-> price, outcomeIndex |-> x, onChainTimestamp |-> "1"] :
     n \in {9, 10}, size \in {"", "0", "1", "x"}, price \in {"", "0", "2"},
     x \in {"0", "1"}}
    \cup {[kind |-> "header"], [kind |-> "blank"]}

\* The OrderMatched built from the parts of a row, lines 768-781.
OrderOfRow(parts) ==
  [wallet |-> TextOrUndefined(parts.wallet),
   side |-> TextOrUndefined(parts.side),
   size |-> NumberOrUndefined(ParseNumber(TextOr(parts.size, "0"))),
   price |-> NumberOrUndefined(ParseNumber(TextOr(parts.price, "0"))),
   outcomeIndex |-> NumberOrUndefined(ParseNumber(TextOr(parts.outcomeIndex, "0"))),
   onChainTimestamp |->
     NumberOrUndefined(ParseNumber(TextOr(parts.onChainTimestamp, "0")))]

\* order.price !== undefined && order.size !== undefined && order.price > 0
KeepsRow(order) ==
  order.price # Undefined /\ order.size # Undefined /\ order.price > 0

\* readSessionCSVFiles on the lines of one file, lines 758-798: header and
\* blank lines are filtered out, a row of fewer than 10 fields is passed
\* over, and a row is pushed when KeepsRow holds of its order.
RECURSIVE ReadSessionCSVFile(_)
ReadSessionCSVFile(lines) ==
  IF lines = <<>> THEN <<>>
  ELSE LET line == Head(lines)
           rest == ReadSessionCSVFile(Tail(lines))
       IN IF line.kind # "row" THEN rest
          ELSE IF line.fields < 10 THEN rest
          ELSE IF KeepsRow(OrderOfRow(line)) THEN <<OrderOfRow(line)>> \o rest
          ELSE rest

\* String(value) for the numbers of the model.
NumberText(n) ==
  CASE n = 0 -> "0"
    [] n = 1 -> "1"
    [] n = 2 -> "2"

\* escapeCsv: an absent value gives the empty text, any other its String.
\* No text of the model holds a comma, a quote or a line break, so none is
\* put in quotes.
EscapeCsvNumber(value) == IF value = Undefined THEN "" ELSE NumberText(value)
EscapeCsvText(value) == IF value = UndefinedStr THEN "" ELSE value

\* toCsvRow: the ten fields in the persisted column order, joined by commas.
ToCsvRow(data) ==
  [kind |-> "row", fields |-> 10,
   wallet |-> EscapeCsvText(data.wallet),
   side |-> EscapeCsvText(data.side),
   size |-> EscapeCsvNumber(data.size),
   price |-> EscapeCsvNumber(data.price),
   outcomeIndex |-> EscapeCsvNumber(data.outcomeIndex),
   onChainTimestamp |-> EscapeCsvNumber(data.onChainTimestamp)]

\* The trades persisted: up to maxLen trades of one wallet, each a BUY or a
\* SELL of one of PersistLots (<<size, price>>), with outcome index 0 or 1
\* or none and timestamp 0 or 1 or none.
PersistLots == {<<1, 1>>, <<2, 2>>}
PersistIndices == {Undefined, 0, 1}

PersistedOrder(side, lot, outcomeIndex, timestamp) ==
  [wallet |-> BaseWallet, side |-> side, size |-> lot[1], price |-> lot[2],
   outcomeIndex |-> outcomeIndex, onChainTimestamp |-> timestamp]

IsPersistInput(os, maxLen) ==
  \E n \in 0..maxLen :
    \E f \in [1..n -> Sides \X PersistLots \X PersistIndices \X PersistIndices] :
      os = [i \in 1..n |-> PersistedOrder(f[i][1], f[i][2], f[i][3], f[i][4])]

\* The files the loaders are given: up to maxLen lines.
IsFile(lines, alphabet, maxLen) ==
  \E n \in 0..maxLen : lines \in [1..n -> alphabet]

\* ------------------------------------------------------------------ state
VARIABLES
  orders,               \* the input collection
  pc,                   \* where the driver is
  stats,                \* getWalletStats' result
  walletOrders,         \* calculateWalletProfit: the filtered, sorted copy
  idx,                  \* position of walletOrders.forEach
  profitByOutcome,      \* the Map built by the forEach
  currentPrice,         \* the currentPrice argument
  unrealized,           \* the local `unrealized` of each outcome, in Map order
  result,               \* calculateWalletProfit's result
  topWallets,           \* the three rankings
  priceReport,          \* the results of the price functions
  callee,               \* an aggregator call: the function and its arguments
  inputBefore,          \* the input as it was handed to the first call
  firstResult,          \* what the first call returned
  secondResult,         \* what the same call returned the second time
  trackArgs,            \* trackPriceOverTime: intervalSeconds and outcomeIndex
  sortedOrders,         \* trackPriceOverTime: the sorted trades with timestamp
  lastTimestamp,        \* trackPriceOverTime: the largest timestamp
  currentBucketStart,   \* trackPriceOverTime: the start of the next window
  snapshots,            \* trackPriceOverTime: the snapshots pushed so far
  loader,               \* which loader reads the file
  fileLines,            \* the lines of the file being loaded
  loaded,               \* what the loader returned
  program,              \* which session scheduler runs: market data or orders
  currentSlug,          \* state.currentSlug, as the number of its session
  websocket,            \* state.marketWebsocket / state.websocket
  sockets,              \* every websocket created for the state, in order
  timers,               \* the pending setTimeout callbacks of the state
  retryCount,           \* subscribeToSlug's retryCount
  switching,            \* nextSlug of the rollover callback that is running
  thrown,               \* the session whose switch threw and is not subscribed
  messages,             \* the wallets of the feed messages still to arrive
  persisting,           \* the persistMessage calls in flight
  walletsMetadataSaved, \* the Set of the subscription
  metadataWrites        \* the wallets whose .wallet.json was written, in order

profitVars == <<walletOrders, idx, profitByOutcome, currentPrice, unrealized, result>>
reportVars == <<topWallets, priceReport>>
callVars == <<callee, inputBefore, firstResult, secondResult>>
trackVars == <<trackArgs, sortedOrders, lastTimestamp, currentBucketStart, snapshots>>
loadVars == <<loader, fileLines, loaded>>
sessionVars == <<program, currentSlug, websocket, sockets, timers, retryCount,
                 switching, thrown>>
metaVars == <<messages, persisting, walletsMetadataSaved, metadataWrites>>
vars == <<orders, pc, stats, profitVars, reportVars, callVars, trackVars, loadVars,
          sessionVars, metaVars>>

None == <<>>
\* null, for a websocket reference.
NoSocket == 0

\* No scheduler runs and no feed is subscribed.
InitFeed ==
  /\ program = None
  /\ currentSlug = 0
  /\ websocket = NoSocket
  /\ sockets = <<>>
  /\ timers = <<>>
  /\ retryCount = 0
  /\ switching = 0
  /\ thrown = 0
  /\ messages = <<>>
  /\ persisting = <<>>
  /\ walletsMetadataSaved = {}
  /\ metadataWrites = <<>>

InitAnalysis ==
  /\ pc = "main"
  /\ stats = None
  /\ walletOrders = <<>>
  /\ idx = 1
  /\ profitByOutcome = <<>>
  /\ currentPrice = NoMap
  /\ unrealized = <<>>
  /\ result = None
  /\ topWallets = None
  /\ priceReport = None
  /\ callee = None
  /\ inputBefore = None
  /\ firstResult = None
  /\ secondResult = None
  /\ trackArgs = None
  /\ sortedOrders = <<>>
  /\ lastTimestamp = 0
  /\ currentBucketStart = 0
  /\ snapshots = <<>>
  /\ loaded = None

InitCore == InitAnalysis /\ InitFeed

\* No file is being loaded: the collection is given.
InitRest == InitCore /\ loader = None /\ fileLines = <<>>

InitWith(maxLen) == IsInput(orders, maxLen) /\ InitRest

Init == InitWith(MaxLen)

\* index.ts main: getWalletStats(orders, exampleWallet)
CallGetWalletStats ==
  /\ pc = "main"
  /\ stats' = GetWalletStats(orders, QueriedWallet)
  /\ pc' = "profit"
  /\ UNCHANGED <<sessionVars, metaVars,
                 orders, profitVars, reportVars, callVars, trackVars, loadVars>>

\* calculateWalletProfit, lines 192-207: filter, sort, the empty Map.
BeginProfit ==
  /\ pc = "profit"
  /\ walletOrders' = SortByTimestamp(WalletOrdersOf(orders, QueriedWallet))
  /\ profitByOutcome' = <<>>
  /\ idx' = 1
  /\ pc' = "forEach"
  /\ UNCHANGED <<sessionVars, metaVars,
                 orders, stats, currentPrice, unrealized, result, reportVars, callVars, trackVars, loadVars>>

\* One iteration of walletOrders.forEach, lines 210-259.
ProcessOrder ==
  /\ pc = "forEach"
  /\ idx <= Len(walletOrders)
  /\ profitByOutcome' = ProcessOne(profitByOutcome, walletOrders[idx])
  /\ idx' = idx + 1
  /\ UNCHANGED <<sessionVars, metaVars, orders, pc, stats, walletOrders, currentPrice, unrealized,
                 result, reportVars, callVars, trackVars, loadVars>>

\* Lines 262-354: profitByOutcome.forEach and the returned object.
\* currentPrice is an argument of the call; the code reads it first in this
\* loop, and the model draws it here.
FinishProfit ==
  /\ pc = "forEach"
  /\ idx > Len(walletOrders)
  /\ \E cp \in CurrentPriceArgs :
       /\ currentPrice' = cp
       /\ unrealized' =
            [j \in DOMAIN profitByOutcome |-> UnrealizedOf(profitByOutcome[j], cp)]
       /\ result' =
            WalletProfitOf(QueriedWallet,
                           FoldTotals(ZeroTotals, profitByOutcome, walletOrders, cp),
                           [j \in DOMAIN profitByOutcome |->
                              OutcomeResult(walletOrders, profitByOutcome[j])])
  /\ profitByOutcome' =
       [j \in DOMAIN profitByOutcome |->
          [profitByOutcome[j] EXCEPT
             !.averageBuyPrice =
                OutcomeAverageBuyPrice(walletOrders, profitByOutcome[j].outcomeIndex),
             !.averageSellPrice =
                OutcomeAverageSellPrice(walletOrders, profitByOutcome[j].outcomeIndex)]]
  /\ pc' = "done"
  /\ UNCHANGED <<sessionVars, metaVars,
                 orders, stats, walletOrders, idx, reportVars, callVars, trackVars, loadVars>>

\* index.ts main: the three rankings, called with one limit.
CallTopWallets ==
  /\ pc = "main"
  /\ \E limit \in Limits :
       topWallets' =
         [limit |-> limit,
          byTradeCount |-> GetTopWalletsByTradeCount(orders, limit),
          byVolume |-> GetTopWalletsByVolume(orders, limit),
          byProfit |-> GetTopWalletsByProfit(orders, limit, NoMap)]
  /\ pc' = "ranked"
  /\ UNCHANGED <<sessionVars, metaVars,
                 orders, stats, profitVars, priceReport, callVars, trackVars, loadVars>>

\* The exported price functions with the arguments analyze-price.ts main
\* gives them, and trackPriceOverTime with a positive interval, on one
\* collection. They are library functions: a caller may pass any collection,
\* the empty one included.
CallPriceFunctions ==
  /\ pc = "main"
  /\ \E outcomeIndex \in OutcomeFilters, price \in Prices, interval \in Intervals :
       priceReport' =
         [outcomeIndex |-> outcomeIndex,
          targetPrice |-> price,
          intervalSeconds |-> interval,
          priceStats |-> GetPriceStats(orders, price, outcomeIndex),
          priceAnalysis |-> AnalyzeByPrice(orders, outcomeIndex),
          priceHistory |-> TrackPriceByTimestamp(orders, outcomeIndex),
          priceOverTime |-> TrackPriceOverTime(orders, interval, outcomeIndex)]
  /\ pc' = "priced"
  /\ UNCHANGED <<sessionVars, metaVars,
                 orders, stats, profitVars, topWallets, callVars, trackVars, loadVars>>

\* The wallet report of index.ts main on collections of up to MaxLen trades.
Next ==
  \/ CallGetWalletStats
  \/ BeginProfit
  \/ ProcessOrder
  \/ FinishProfit

Spec == Init /\ [][Next]_vars

\* Any one of the reports on collections of up to MaxReportLen trades.
InitReports == InitWith(MaxReportLen)

NextReports ==
  \/ CallGetWalletStats
  \/ BeginProfit
  \/ ProcessOrder
  \/ FinishProfit
  \/ CallTopWallets
  \/ CallPriceFunctions

SpecReports == InitReports /\ [][NextReports]_vars

\* Any one aggregator, called twice with the same arguments on the same
\* array, on collections of up to MaxReportLen trades.
CallOnce ==
  /\ pc = "main"
  /\ \E c \in Callees :
       /\ callee' = c
       /\ firstResult' = ResultOf(c, orders)
       /\ orders' = InputAfter(c, orders)
  /\ inputBefore' = orders
  /\ pc' = "called"
  /\ UNCHANGED <<sessionVars, metaVars, stats, profitVars, reportVars, secondResult, trackVars,
               loadVars>>

CallAgain ==
  /\ pc = "called"
  /\ secondResult' = ResultOf(callee, orders)
  /\ orders' = InputAfter(callee, orders)
  /\ pc' = "calledTwice"
  /\ UNCHANGED <<sessionVars, metaVars,
                 stats, profitVars, reportVars, callee, inputBefore, firstResult,
               trackVars, loadVars>>

NextCalls ==
  \/ CallOnce
  \/ CallAgain

SpecCalls == InitReports /\ [][NextCalls]_vars

\* trackPriceOverTime statement by statement, lines 535-554: the two
\* filters, the sort, the early returns, the first window.
BeginTrack ==
  /\ pc = "main"
  /\ \E intervalSeconds \in TrackIntervals, outcomeIndex \in TrackFilters :
       LET filteredOrders == FilterByOutcome(orders, outcomeIndex)
           sorted == SortedWithTimestamp(filteredOrders)
       IN /\ trackArgs' = [intervalSeconds |-> intervalSeconds,
                           outcomeIndex |-> outcomeIndex]
          /\ IF Len(filteredOrders) = 0 \/ Len(sorted) = 0
             THEN /\ pc' = "returned"
                  /\ UNCHANGED <<sortedOrders, lastTimestamp, currentBucketStart>>
             ELSE /\ pc' = "loopTest"
                  /\ sortedOrders' = sorted
                  /\ lastTimestamp' = sorted[Len(sorted)].onChainTimestamp
                  /\ currentBucketStart' = sorted[1].onChainTimestamp
  /\ snapshots' = <<>>
  /\ UNCHANGED <<sessionVars, metaVars, orders, stats, profitVars, reportVars, callVars, loadVars>>

\* while (currentBucketStart <= lastTimestamp), line 556; return, line 594.
LoopTest ==
  /\ pc = "loopTest"
  /\ pc' = IF currentBucketStart <= lastTimestamp THEN "loopBody" ELSE "returned"
  /\ UNCHANGED <<sessionVars, metaVars,
                 orders, stats, profitVars, reportVars, callVars, trackVars, loadVars>>

\* The body of the loop, lines 557-591.
LoopBody ==
  /\ pc = "loopBody"
  /\ LET bucketEnd == currentBucketStart + trackArgs.intervalSeconds
         bucketOrders ==
           SelectSeq(sortedOrders,
                     LAMBDA o : /\ o.onChainTimestamp >= currentBucketStart
                                /\ o.onChainTimestamp < bucketEnd)
     IN /\ snapshots' =
             IF Len(bucketOrders) > 0
             THEN Append(snapshots,
                         PriceSnapshot(currentBucketStart, bucketOrders,
                                       trackArgs.outcomeIndex))
             ELSE snapshots
        /\ currentBucketStart' = bucketEnd
  /\ pc' = "loopTest"
  /\ UNCHANGED <<sessionVars, metaVars, orders, stats, profitVars, reportVars, callVars, trackArgs,
                 sortedOrders, lastTimestamp, loadVars>>

\* A loader reads a file of up to MaxLines lines.
InitLoad ==
  /\ \/ loader = "readOrdersMatched" /\ IsFile(fileLines, JsonLines, MaxLines)
     \/ loader = "readSessionCSVFiles" /\ IsFile(fileLines, CsvRows, MaxLines)
  /\ orders = <<>>
  /\ InitCore

CallReadOrdersMatched ==
  /\ pc = "main"
  /\ loader = "readOrdersMatched"
  /\ loaded' = ReadOrdersMatched(fileLines)
  /\ pc' = "loaded"
  /\ UNCHANGED <<sessionVars, metaVars, orders, stats, profitVars, reportVars, callVars, trackVars,
                 loader, fileLines>>

CallReadSessionCSVFiles ==
  /\ pc = "main"
  /\ loader = "readSessionCSVFiles"
  /\ loaded' = ReadSessionCSVFile(fileLines)
  /\ pc' = "loaded"
  /\ UNCHANGED <<sessionVars, metaVars, orders, stats, profitVars, reportVars, callVars, trackVars,
                 loader, fileLines>>

NextLoad ==
  \/ CallReadOrdersMatched
  \/ CallReadSessionCSVFiles

SpecLoad == InitLoad /\ [][NextLoad]_vars

\* The rankings alone, on collections of up to MaxRankLen trades of
\* several wallets.
InitRank == IsRankInput(orders, MaxRankLen) /\ InitRest

NextRank == CallTopWallets

SpecRank == InitRank /\ [][NextRank]_vars

\* persistMessage for the next trade of the feed: ensureCsvHeader on the
\* first one (the file does not exist yet: it is created with the header),
\* then the row is appended.
PersistMessage ==
  /\ pc = "main"
  /\ loader = "readSessionCSVFiles"
  /\ idx <= Len(orders)
  /\ fileLines' = (IF fileLines = <<>> THEN <<[kind |-> "header"]>> ELSE fileLines)
                    \o <<ToCsvRow(orders[idx])>>
  /\ idx' = idx + 1
  /\ UNCHANGED <<sessionVars, metaVars,
                 orders, pc, stats, walletOrders, profitByOutcome, currentPrice,
                 unrealized, result, reportVars, callVars, trackVars, loader, loaded>>

\* The feed persists its trades one by one; the session file is read back
\* at any time.
InitPersist ==
  /\ IsPersistInput(orders, MaxPersistLen)
  /\ InitCore
  /\ loader = "readSessionCSVFiles"
  /\ fileLines = <<>>

NextPersist ==
  \/ PersistMessage
  \/ CallReadSessionCSVFiles

SpecPersist == InitPersist /\ [][NextPersist]_vars

\* ------------------------------------------------- the session scheduler
\* The two schedulers: the market-data one, whose subscribeToSlug fetches
\* the asset ids and retries, and the orders one, whose subscribeToSlug
\* calls subscribeOrdersMatched.
Programs == {"market", "orders"}

\* `if (retryCount < 3)`
MaxRetries == 3

\* getNextSessionSlug: the slug of the session 15 minutes later.
GetNextSessionSlug(slug) == slug + 1

\* ws.close() on the socket the reference names.
Closed(ss, ws) == IF ws = NoSocket THEN ss ELSE [ss EXCEPT ![ws].open = FALSE]

\* new WebSocket(...) for the session slug.
Created(ss, slug) == Append(ss, [slug |-> slug, open |-> TRUE])

\* Mutant: the rollover leaves the previous socket as it is.
ClosePreviousForgotten(ss, ws) == ss

\* The rollover callback's `if (state.websocket) { close() }`.
ClosePrevious(ss, ws) == Closed(ss, ws)

\* Mutant: the next rollover is not scheduled.
ScheduleNextSessionForgotten(ts, slug) == ts

\* scheduleNextSession(state): a timer that will switch to the session after
\* state.currentSlug (the slug of the model always parses).
ScheduleNextSession(ts, slug) ==
  Append(ts, [kind |-> "rollover", nextSlug |-> GetNextSessionSlug(slug)])

\* main: the first subscription of the state. The market scheduler enters
\* subscribeToSlug; the orders scheduler has its socket at once, or
\* subscribeOrdersMatched throws and main is rejected.
MainSubscribe ==
  /\ pc = "main"
  /\ \/ /\ program = "market"
        /\ retryCount' = 0
        /\ pc' = "fetch"
        /\ UNCHANGED <<websocket, sockets, timers>>
     \/ /\ program = "orders"
        /\ sockets' = Created(sockets, currentSlug)
        /\ websocket' = Len(sockets) + 1
        /\ timers' = ScheduleNextSession(timers, currentSlug)
        /\ pc' = "idle"
        /\ UNCHANGED retryCount
     \/ /\ program = "orders"
        /\ pc' = "rejected"
        /\ UNCHANGED <<websocket, sockets, timers, retryCount>>
  /\ UNCHANGED <<orders, stats, profitVars, reportVars, callVars, trackVars, loadVars,
                 program, currentSlug, switching, thrown, metaVars>>

\* Mutant: `retryCount <= 3`, one attempt more.
FailedAttemptOneMore ==
  IF retryCount <= MaxRetries
  THEN /\ retryCount' = retryCount + 1
       /\ pc' = "fetch"
       /\ UNCHANGED <<websocket, timers>>
  ELSE /\ websocket' = NoSocket
       /\ timers' = ScheduleNextSession(timers, currentSlug)
       /\ pc' = "idle"
       /\ UNCHANGED retryCount

\* A failed attempt of the market subscribeToSlug: the next attempt after
\* the backoff, or null after the last one; the caller stores the null and
\* schedules the next session.
FailedAttempt ==
  IF retryCount < MaxRetries
  THEN /\ retryCount' = retryCount + 1
       /\ pc' = "fetch"
       /\ UNCHANGED <<websocket, timers>>
  ELSE /\ websocket' = NoSocket
       /\ timers' = ScheduleNextSession(timers, currentSlug)
       /\ pc' = "idle"
       /\ UNCHANGED retryCount

\* subscribeToSlug of the market scheduler, up to the 200 ms wait:
\* getAssetIdsBySlug gives asset ids, gives none, or fails.
FetchAssetIds ==
  /\ pc = "fetch"
  /\ \/ /\ sockets' = Closed(sockets, websocket)
        /\ websocket' = NoSocket
        /\ pc' = "create"
        /\ UNCHANGED <<timers, retryCount>>
     \/ /\ websocket' = NoSocket
        /\ timers' = ScheduleNextSession(timers, currentSlug)
        /\ pc' = "idle"
        /\ UNCHANGED <<sockets, retryCount>>
     \/ /\ FailedAttempt
        /\ UNCHANGED sockets
  /\ UNCHANGED <<orders, stats, profitVars, reportVars, callVars, trackVars, loadVars,
                 program, currentSlug, switching, thrown, metaVars>>

\* subscribeToSlug of the market scheduler after the wait: subscribeMarket
\* gives the socket, which is stored and returned, or throws.
CreateSocket ==
  /\ pc = "create"
  /\ \/ /\ sockets' = Created(sockets, currentSlug)
        /\ websocket' = Len(sockets) + 1
        /\ timers' = ScheduleNextSession(timers, currentSlug)
        /\ pc' = "idle"
        /\ UNCHANGED retryCount
     \/ /\ FailedAttempt
        /\ UNCHANGED sockets
  /\ UNCHANGED <<orders, stats, profitVars, reportVars, callVars, trackVars, loadVars,
                 program, currentSlug, switching, thrown, metaVars>>

\* The rollover timer fires: its callback closes the previous socket,
\* clears the reference and waits 500 ms.
TimerFires ==
  /\ pc = "idle"
  /\ timers # <<>>
  /\ Head(timers).kind = "rollover"
  /\ Head(timers).nextSlug <= MaxSessions
  /\ timers' = Tail(timers)
  /\ switching' = Head(timers).nextSlug
  /\ sockets' = ClosePrevious(sockets, websocket)
  /\ websocket' = NoSocket
  /\ pc' = "switch"
  /\ UNCHANGED <<orders, stats, profitVars, reportVars, callVars, trackVars, loadVars,
                 program, currentSlug, retryCount, thrown, metaVars>>

\* The callback after the wait: state.currentSlug = nextSlug, then the
\* subscription. The market scheduler enters subscribeToSlug; the orders
\* scheduler has its socket and schedules the next session, or
\* subscribeOrdersMatched throws and the catch sets the 5 s timer.
SwitchSession ==
  /\ pc = "switch"
  /\ currentSlug' = switching
  /\ \/ /\ program = "market"
        /\ retryCount' = 0
        /\ pc' = "fetch"
        /\ UNCHANGED <<websocket, sockets, timers, thrown>>
     \/ /\ program = "orders"
        /\ sockets' = Created(sockets, switching)
        /\ websocket' = Len(sockets) + 1
        /\ timers' = ScheduleNextSession(timers, switching)
        /\ pc' = "idle"
        /\ UNCHANGED <<retryCount, thrown>>
     \/ /\ program = "orders"
        /\ timers' = Append(timers, [kind |-> "retry", nextSlug |-> switching])
        /\ thrown' = switching
        /\ pc' = "idle"
        /\ UNCHANGED <<websocket, sockets, retryCount>>
  /\ UNCHANGED <<orders, stats, profitVars, reportVars, callVars, trackVars, loadVars,
                 program, switching, metaVars>>

\* The 5 s timer of the catch fires: scheduleNextSession(state).
RetryFires ==
  /\ pc = "idle"
  /\ timers # <<>>
  /\ Head(timers).kind = "retry"
  /\ timers' = ScheduleNextSession(Tail(timers), currentSlug)
  /\ UNCHANGED <<orders, pc, stats, profitVars, reportVars, callVars, trackVars,
                 loadVars, program, currentSlug, websocket, sockets, retryCount,
                 switching, thrown, metaVars>>

\* One slug state of either scheduler, in its first session.
InitSessions ==
  /\ orders = <<>>
  /\ InitAnalysis
  /\ loader = None /\ fileLines = <<>>
  /\ program \in Programs
  /\ currentSlug = 1
  /\ websocket = NoSocket
  /\ sockets = <<>>
  /\ timers = <<>>
  /\ retryCount = 0
  /\ switching = 0
  /\ thrown = 0
  /\ messages = <<>>
  /\ persisting = <<>>
  /\ walletsMetadataSaved = {}
  /\ metadataWrites = <<>>

NextSessions ==
  \/ MainSubscribe
  \/ FetchAssetIds
  \/ CreateSocket
  \/ TimerFires
  \/ SwitchSession
  \/ RetryFires

SpecSessions == InitSessions /\ [][NextSessions]_vars

\* Timers fire and awaited promises settle.
SpecSessionsFair == SpecSessions /\ WF_vars(NextSessions)

\* ---- subscribeOrdersMatched: the wallet metadata of one subscription ----

\* The wallets of the feed's messages.
FeedWallets == {1, 2}

FeedMessages(maxLen) ==
  UNION {[1..n -> FeedWallets \cup {Undefined}] : n \in 0..maxLen}

\* The call at position i of persisting moves on to `at`.
MovedTo(calls, i, at) == [calls EXCEPT ![i].at = at]

\* ws.on("message"): `void persistMessage(msg)` starts the call and does not
\* wait for it. The call runs to its first await: it returns for a payload
\* without wallet, and it tests walletsMetadataSaved.has(wallet); `saved` is
\* what the test gave. With the wallet absent from the Set the call is
\* suspended in saveWalletMapping at `await fs.mkdir`.
MessageArrives ==
  /\ messages # <<>>
  /\ LET wallet == Head(messages)
         saved == wallet \in walletsMetadataSaved
     IN persisting' = Append(persisting,
          [wallet |-> wallet,
           saved |-> saved,
           at |-> IF wallet = Undefined THEN "done"
                  ELSE IF saved THEN "row" ELSE "mkdir"])
  /\ messages' = Tail(messages)
  /\ UNCHANGED <<orders, pc, stats, profitVars, reportVars, callVars, trackVars,
                 loadVars, sessionVars, walletsMetadataSaved, metadataWrites>>

\* saveWalletMapping: fs.mkdir settles. Resolved, writeFile is started;
\* rejected, the catch logs, saveWalletMapping returns and persistMessage
\* adds the wallet to the Set.
MkdirSettles ==
  \E i \in DOMAIN persisting, resolved \in BOOLEAN :
    /\ persisting[i].at = "mkdir"
    /\ IF resolved
       THEN /\ persisting' = MovedTo(persisting, i, "write")
            /\ UNCHANGED walletsMetadataSaved
       ELSE /\ persisting' = MovedTo(persisting, i, "row")
            /\ walletsMetadataSaved' = walletsMetadataSaved \cup {persisting[i].wallet}
    /\ UNCHANGED <<orders, pc, stats, profitVars, reportVars, callVars, trackVars,
                   loadVars, sessionVars, messages, metadataWrites>>

\* saveWalletMapping: fs.writeFile of .wallet.json settles. Resolved, the
\* file has been written. Either way saveWalletMapping returns and
\* persistMessage adds the wallet to the Set.
WriteFileSettles ==
  \E i \in DOMAIN persisting, resolved \in BOOLEAN :
    /\ persisting[i].at = "write"
    /\ metadataWrites' = IF resolved
                         THEN Append(metadataWrites, persisting[i].wallet)
                         ELSE metadataWrites
    /\ walletsMetadataSaved' = walletsMetadataSaved \cup {persisting[i].wallet}
    /\ persisting' = MovedTo(persisting, i, "row")
    /\ UNCHANGED <<orders, pc, stats, profitVars, reportVars, callVars, trackVars,
                   loadVars, sessionVars, messages>>

\* The rest of persistMessage: the row is appended to the workbook of the
\* wallet, which is no state of this model, and the call ends.
AppendRow ==
  \E i \in DOMAIN persisting :
    /\ persisting[i].at = "row"
    /\ persisting' = MovedTo(persisting, i, "done")
    /\ UNCHANGED <<orders, pc, stats, profitVars, reportVars, callVars, trackVars,
                   loadVars, sessionVars, messages, walletsMetadataSaved,
                   metadataWrites>>

\* One subscription, its Set empty, and the messages it is going to receive.
InitMetadata ==
  /\ orders = <<>>
  /\ InitAnalysis
  /\ loader = None /\ fileLines = <<>>
  /\ program = None
  /\ currentSlug = 0
  /\ websocket = NoSocket
  /\ sockets = <<>>
  /\ timers = <<>>
  /\ retryCount = 0
  /\ switching = 0
  /\ thrown = 0
  /\ messages \in FeedMessages(MaxMessages)
  /\ persisting = <<>>
  /\ walletsMetadataSaved = {}
  /\ metadataWrites = <<>>

NextMetadata ==
  \/ MessageArrives
  \/ MkdirSettles
  \/ WriteFileSettles
  \/ AppendRow

SpecMetadata == InitMetadata /\ [][NextMetadata]_vars

\* calculateWalletProfit on the ledger collections.
InitLedger == IsLedgerInput(orders, MaxLedgerLen) /\ InitRest

SpecLedger == InitLedger /\ [][Next]_vars

\* calculateWalletProfit on the collections of IsOrderInput.
InitOrder == IsOrderInput(orders, MaxOrderLen) /\ InitRest

SpecOrder == InitOrder /\ [][Next]_vars

InitTrack == IsTrackInput(orders, MaxTrackLen) /\ InitRest

NextTrack ==
  \/ BeginTrack
  \/ LoopTest
  \/ LoopBody

SpecTrack == InitTrack /\ [][NextTrack]_vars

\* The same call on collections of up to MaxLoopLen trades, running on: a
\* step that can be taken is taken.
InitTrackLoop == IsTrackInput(orders, MaxLoopLen) /\ InitRest

SpecTrackLoop == InitTrackLoop /\ [][NextTrack]_vars /\ WF_vars(NextTrack)

\* ================================================================ claims
\* What the forEach has processed so far, and the step it takes next.
Processed == SubSeq(walletOrders, 1, idx - 1)
InProfit == pc \in {"forEach", "done"}
ThisOrder == walletOrders[idx]
ThisSize == OrZero(ThisOrder.size)
ThisPrice == OrZero(ThisOrder.price)
\* The outcome data of the order being processed, before and after the step.
DataBefore ==
  IF MapHas(profitByOutcome, ThisOrder.outcomeIndex)
  THEN MapGet(profitByOutcome, ThisOrder.outcomeIndex)
  ELSE NewOutcomeData(ThisOrder.outcomeIndex)
DataAfter == MapGet(profitByOutcome', ThisOrder.outcomeIndex)
SellStep ==
  ProcessOrder /\ ThisOrder.side = "SELL" /\ ThisOrder.outcomeIndex # Undefined
BuyStep ==
  ProcessOrder /\ ThisOrder.side = "BUY" /\ ThisOrder.outcomeIndex # Undefined

QueueSizeTo(q, d) == SumInts([i \in 1..d |-> q[i].size])
QueueSize(q) == QueueSizeTo(q, Len(q))
\* Lots 1..d bought back in full at sell price p.
ProfitTo(q, d, p) == SumInts([i \in 1..d |-> (p - q[i].price) * q[i].size])

\* A sell of s at p against queue q, oldest lot first: lots 1..d are used up,
\* lot d+1 gives t of its size and stays at the head, later lots are
\* untouched.  (A lot of size 0 has nothing to give and may stay or go.)
FifoMatch(q, s, p, gain, qAfter) ==
  \E d \in 0..Len(q) : \E t \in 0..s :
    /\ d = Len(q) => t = 0
    /\ d < Len(q) => (t < q[d + 1].size \/ q[d + 1].size = 0)
    /\ QueueSizeTo(q, d) + t = Min(s, QueueSize(q))
    /\ qAfter = IF d = Len(q) THEN <<>>
                ELSE <<[size |-> q[d + 1].size - t, price |-> q[d + 1].price]>>
                       \o SubSeq(q, d + 2, Len(q))
    /\ gain = ProfitTo(q, d, p)
                + (IF d < Len(q) THEN (p - q[d + 1].price) * t ELSE 0)

C1_SellStep ==
  SellStep =>
    /\ FifoMatch(DataBefore.buyQueue, ThisSize, ThisPrice,
                 DataAfter.realizedProfit - DataBefore.realizedProfit,
                 DataAfter.buyQueue)
    /\ ThisSize <= QueueSize(DataBefore.buyQueue)
         => DataAfter.openPosition = DataBefore.openPosition - ThisSize

\* BUY s@p1 then SELL s@p2 of one outcome: profit (p2 - p1) * s, position 0.
C1_RoundTrip ==
  (/\ InProfit /\ Len(walletOrders) = 2 /\ idx = 3
   /\ walletOrders[1].side = "BUY" /\ walletOrders[2].side = "SELL"
   /\ walletOrders[1].outcomeIndex # Undefined
   /\ walletOrders[1].outcomeIndex = walletOrders[2].outcomeIndex
   /\ OrZero(walletOrders[1].size) = OrZero(walletOrders[2].size))
  => /\ profitByOutcome[1].realizedProfit =
          (OrZero(walletOrders[2].price) - OrZero(walletOrders[1].price))
            * OrZero(walletOrders[1].size)
     /\ profitByOutcome[1].openPosition = 0

\* C1: every SELL is matched against the open BUY lots strictly oldest
\* first; each matched share realizes sell price minus the lot's price and
\* leaves the open position; no later lot is touched while an earlier one
\* has size left.  BUY s@p1, SELL s@p2 gives profit (p2 - p1) * s, position 0.
C1_FifoMatching == [][C1_SellStep]_vars /\ []C1_RoundTrip

\* A SELL of 2 has used up two lots of 1 bought at different prices.
C1_Witness ==
  /\ pc = "forEach" /\ idx = 4
  /\ walletOrders = <<PlainOrder(1, "BUY", 1, 1), PlainOrder(2, "BUY", 1, 2),
                      PlainOrder(3, "SELL", 2, 2)>>
  /\ profitByOutcome[1].realizedProfit = 1
  /\ profitByOutcome[1].buyQueue = <<>>

\* The BUYs of one outcome among the orders os, as lots, in order.
LotOf(o) == [size |-> OrZero(o.size), price |-> OrZero(o.price)]
BuyLots(os, outcomeIndex) ==
  LET buys == SelectSeq(os, LAMBDA o : o.side = "BUY" /\ o.outcomeIndex = outcomeIndex)
  IN [i \in DOMAIN buys |-> LotOf(buys[i])]

\* q is a tail of the lots ever created, each with its price and, behind
\* the head, its full size.
IsSurvivingTail(q, lots) ==
  \E d \in 0..Len(lots) :
    /\ Len(q) = Len(lots) - d
    /\ \A i \in DOMAIN q :
         /\ q[i].price = lots[d + i].price
         /\ i > 1 => q[i].size = lots[d + i].size
         /\ i = 1 => /\ q[i].size <= lots[d + i].size
                     /\ q[i].size > 0 \/ lots[d + i].size = 0

C2_QueueInv ==
  InProfit =>
    \A j \in DOMAIN profitByOutcome :
      IsSurvivingTail(profitByOutcome[j].buyQueue,
                      BuyLots(Processed, profitByOutcome[j].outcomeIndex))

\* A SELL smaller than the head lot only shrinks the head lot.
C2_PartialFill ==
  (SellStep /\ DataBefore.buyQueue # <<>>
     /\ ThisSize < DataBefore.buyQueue[1].size)
  => /\ DataAfter.buyQueue =
          [DataBefore.buyQueue EXCEPT ![1].size = @ - ThisSize]
     /\ DataAfter.realizedProfit = DataBefore.realizedProfit
          + (ThisPrice - DataBefore.buyQueue[1].price) * ThisSize
     /\ DataAfter.openPosition = DataBefore.openPosition - ThisSize

\* C2: after any prefix of the wallet's trades every outcome's queue holds
\* the surviving lots in BUY order, each with its original price and, except
\* for the head, its original size; a SELL smaller than the head lot leaves
\* the lot at the head, smaller by the sell size.
C2_LotQueue == []C2_QueueInv /\ [][C2_PartialFill]_vars

\* BUY 2@1, SELL 1@2: profit 1, position 1, head lot 1@1.
C2_Witness ==
  /\ pc = "forEach" /\ idx = 3
  /\ walletOrders = <<PlainOrder(1, "BUY", 2, 1), PlainOrder(2, "SELL", 1, 2)>>
  /\ profitByOutcome[1].realizedProfit = 1
  /\ profitByOutcome[1].openPosition = 1
  /\ profitByOutcome[1].buyQueue = <<[size |-> 1, price |-> 1]>>

C3_Oversell ==
  (SellStep /\ ThisSize > QueueSize(DataBefore.buyQueue))
  => /\ DataAfter.openPosition = DataBefore.openPosition - ThisSize
     /\ DataAfter.realizedProfit = DataBefore.realizedProfit
          + ProfitTo(DataBefore.buyQueue, Len(DataBefore.buyQueue), ThisPrice)
     /\ DataAfter.buyQueue = <<>>

\* A single SELL s@p with no BUY before it: profit 0, position -s.
C3_NakedSell ==
  (InProfit /\ idx = 2 /\ walletOrders[1].side = "SELL"
     /\ walletOrders[1].outcomeIndex # Undefined)
  => /\ profitByOutcome[1].realizedProfit = 0
     /\ profitByOutcome[1].openPosition = -OrZero(walletOrders[1].size)

\* C3: a SELL larger than all remaining lots of its outcome (or meeting an
\* empty queue) realizes profit on the matched part only; the unmatched
\* remainder is subtracted from openPosition, which may go negative.
C3_UnmatchedSell == [][C3_Oversell]_vars /\ []C3_NakedSell

\* BUY 1@1, SELL 2@2: one share matched (profit 1), one share short.
C3_Witness ==
  /\ pc = "forEach" /\ idx = 3
  /\ walletOrders = <<PlainOrder(1, "BUY", 1, 1), PlainOrder(2, "SELL", 2, 2)>>
  /\ profitByOutcome[1].realizedProfit = 1
  /\ profitByOutcome[1].openPosition = -1

C4_BuyWhileShort ==
  (BuyStep /\ DataBefore.openPosition < 0)
  => /\ DataAfter.buyQueue =
          Append(DataBefore.buyQueue, [size |-> ThisSize, price |-> ThisPrice])
     /\ DataAfter.openPosition = DataBefore.openPosition + ThisSize
     /\ DataAfter.realizedProfit = DataBefore.realizedProfit

\* SELL, BUY b@p1, SELL c@p2 of one outcome: the second SELL matches the lot.
C4_LaterSellMatches ==
  (/\ InProfit /\ Len(walletOrders) = 3 /\ idx = 4
   /\ \A i \in 1..3 : walletOrders[i].outcomeIndex = 0
   /\ walletOrders[1].side = "SELL" /\ OrZero(walletOrders[1].size) > 0
   /\ walletOrders[2].side = "BUY" /\ walletOrders[3].side = "SELL")
  => /\ profitByOutcome[1].realizedProfit =
          (OrZero(walletOrders[3].price) - OrZero(walletOrders[2].price))
            * Min(OrZero(walletOrders[2].size), OrZero(walletOrders[3].size))
     /\ profitByOutcome[1].openPosition =
          OrZero(walletOrders[2].size) - OrZero(walletOrders[1].size)
            - OrZero(walletOrders[3].size)

\* C4: a BUY processed while openPosition is negative becomes a new lot at
\* the tail with its full size and price, adds its full size to openPosition
\* and realizes nothing; a later SELL matches against this lot.
C4_BuyAfterShort == [][C4_BuyWhileShort]_vars /\ []C4_LaterSellMatches

\* SELL 2@1 (short 2), BUY 2@1, SELL 1@2: the last SELL earns 1 on the lot.
C4_Witness ==
  /\ pc = "forEach" /\ idx = 4
  /\ walletOrders = <<PlainOrder(1, "SELL", 2, 1), PlainOrder(2, "BUY", 2, 1),
                      PlainOrder(3, "SELL", 1, 2)>>
  /\ profitByOutcome[1].realizedProfit = 1
  /\ profitByOutcome[1].openPosition = -1
  /\ profitByOutcome[1].buyQueue = <<[size |-> 1, price |-> 1]>>

\* Exact fractions: p is the fraction n / d.
IsFraction(p, n, d) == p[2] > 0 /\ p[1] * d = p[2] * n
Zero == <<0, 1>>

Supplied(outcomeIndex) ==
  currentPrice # NoMap /\ \E e \in currentPrice[1] : e[1] = outcomeIndex
SuppliedPrice(outcomeIndex) ==
  (CHOOSE e \in currentPrice[1] : e[1] = outcomeIndex)[2]
QueueValue(q) == SumInts([i \in DOMAIN q |-> q[i].size * q[i].price])

\* C5: per outcome, unrealized profit is (currentPrice - volume-weighted
\* average price of the lots still queued) * openPosition when a current
\* price is supplied for the outcome and openPosition > 0, and exactly 0
\* otherwise (openPosition <= 0, no price map, no entry for the outcome).
C5_Unrealized ==
  pc = "done" =>
    /\ Len(unrealized) = Len(profitByOutcome)
    /\ \A j \in DOMAIN profitByOutcome :
         LET data == profitByOutcome[j]
             q == data.buyQueue
         IN IF Supplied(data.outcomeIndex) /\ data.openPosition > 0
            THEN /\ QueueSize(q) > 0
                 /\ IsFraction(unrealized[j],
                               (SuppliedPrice(data.outcomeIndex) * QueueSize(q)
                                  - QueueValue(q)) * data.openPosition,
                               QueueSize(q))
            ELSE unrealized[j] = Zero

\* SELL 1 short, then BUY 2@1: position 1 with 2 queued; at price 3 the
\* unrealized profit is (3 - 1) * 1.
C5_Witness ==
  /\ pc = "done"
  /\ walletOrders = <<PlainOrder(1, "SELL", 1, 1), PlainOrder(2, "BUY", 2, 1)>>
  /\ Supplied(0)
  /\ profitByOutcome[1].openPosition = 1
  /\ unrealized = <<(<<2, 1>>)>>

SortKey(o) == IF o.onChainTimestamp = Undefined THEN 0 ELSE o.onChainTimestamp
IsQueried(o) ==
  o.wallet # UndefinedStr /\ ToLowerCase(o.wallet) = ToLowerCase(QueriedWallet)
CountIn(os, o) == Cardinality({i \in DOMAIN os : os[i] = o})
CountQueried(os, o) == Cardinality({i \in DOMAIN os : os[i] = o /\ IsQueried(o)})
Range(os) == {os[i] : i \in DOMAIN os}

\* C6: the wallet's trades are processed in ascending onChainTimestamp
\* order whatever their input order, a missing timestamp counting as 0:
\* walletOrders holds exactly the wallet's trades, sorted, and a trade
\* without timestamp comes before every trade with a positive one.
C6_TimestampOrder ==
  pc = "forEach" =>
    /\ \A i, j \in DOMAIN walletOrders :
         i < j => /\ SortKey(walletOrders[i]) <= SortKey(walletOrders[j])
                  /\ ~(walletOrders[j].onChainTimestamp = Undefined
                         /\ walletOrders[i].onChainTimestamp > 0)
    /\ idx = 1 => \A o \in Range(orders) \cup Range(walletOrders) :
                    CountIn(walletOrders, o) = CountQueried(orders, o)

\* BUY@0, SELL 2@1, then a BUY without timestamp: the late BUY is processed
\* before the SELL, which matches both lots.
C6_Witness ==
  /\ pc = "done"
  /\ orders = <<PlainOrder(1, "BUY", 1, 1), PlainOrder(2, "SELL", 2, 2),
                [PlainOrder(3, "BUY", 1, 1) EXCEPT !.onChainTimestamp = Undefined]>>
  /\ walletOrders = <<orders[1], orders[3], orders[2]>>
  /\ result.realizedProfit = 2
  /\ result.openPosition = 0

HasOutcome(o) == o.outcomeIndex # Undefined
RemoveAt(os, i) == SubSeq(os, 1, i - 1) \o SubSeq(os, i + 1, Len(os))

\* C7: a trade without outcomeIndex changes no field of
\* calculateWalletProfit's result (the result is that of the input without
\* such trades, and no bucket is keyed by a missing index), while
\* getWalletStats still counts the trade and its size for its wallet.
C7_NoOutcomeIndex ==
  (pc = "done" /\ \E i \in DOMAIN orders : ~HasOutcome(orders[i])) =>
    /\ result = CalculateWalletProfit(SelectSeq(orders, HasOutcome),
                                      QueriedWallet, currentPrice)
    /\ \A j \in DOMAIN result.profitByOutcome :
         result.profitByOutcome[j].outcomeIndex # Undefined
    /\ \A i \in DOMAIN orders :
         (~HasOutcome(orders[i]) /\ IsQueried(orders[i])) =>
           LET without == GetWalletStats(RemoveAt(orders, i), QueriedWallet)
               size == OrZero(orders[i].size)
           IN /\ stats.totalTrades = without.totalTrades + 1
              /\ orders[i].side = "BUY" =>
                   /\ stats.buyCount = without.buyCount + 1
                   /\ stats.totalBuyVolume = without.totalBuyVolume + size
                   /\ stats.totalVolume = without.totalVolume + size
              /\ orders[i].side = "SELL" =>
                   /\ stats.sellCount = without.sellCount + 1
                   /\ stats.totalSellVolume = without.totalSellVolume + size
                   /\ stats.totalVolume = without.totalVolume + size

\* BUY 2@2 without outcomeIndex between BUY 1@1 and SELL 1@2 of outcome 0:
\* the profit report shows cost 1 and profit 1, the statistics volume 4.
C7_Witness ==
  /\ pc = "done"
  /\ orders = <<PlainOrder(1, "BUY", 1, 1),
                [PlainOrder(2, "BUY", 2, 2) EXCEPT !.outcomeIndex = Undefined],
                PlainOrder(3, "SELL", 1, 2)>>
  /\ result.totalCost = 1
  /\ result.realizedProfit = 1
  /\ result.openPosition = 0
  /\ stats.totalTrades = 3
  /\ stats.totalVolume = 4

RECURSIVE RatSum(_)
RatSum(ps) == IF ps = <<>> THEN Zero ELSE RatAdd(Head(ps), RatSum(Tail(ps)))
\* size * price summed over the trades of one side that carry an outcome.
SideValue(os, side) ==
  SumInts([i \in DOMAIN os |->
             IF HasOutcome(os[i]) /\ os[i].side = side
             THEN OrZero(os[i].size) * OrZero(os[i].price) ELSE 0])

\* C8: totalCost, totalRevenue, realizedProfit, unrealizedProfit and
\* openPosition are the sums of the per-outcome values over the outcome
\* indices the wallet traded (totalCost over its BUYs with an outcome index,
\* totalRevenue over its SELLs), and totalProfit is realized + unrealized.
C8_WalletTotals ==
  pc = "done" =>
    LET byOutcome == result.profitByOutcome
    IN /\ {byOutcome[j].outcomeIndex : j \in DOMAIN byOutcome}
            = {o.outcomeIndex : o \in {x \in Range(walletOrders) : HasOutcome(x)}}
       /\ \A i, j \in DOMAIN byOutcome :
            byOutcome[i].outcomeIndex = byOutcome[j].outcomeIndex => i = j
       /\ result.totalCost =
            SideValue(walletOrders, "BUY")
       /\ result.totalRevenue =
            SideValue(walletOrders, "SELL")
       /\ result.realizedProfit =
            SumInts([j \in DOMAIN byOutcome |-> byOutcome[j].realizedProfit])
       /\ result.openPosition =
            SumInts([j \in DOMAIN byOutcome |-> byOutcome[j].openPosition])
       /\ result.unrealizedProfit = RatSum(unrealized)
       /\ IsFraction(result.totalProfit,
                     result.realizedProfit * result.unrealizedProfit[2]
                       + result.unrealizedProfit[1],
                     result.unrealizedProfit[2])

\* Two outcomes, both with an open position and a current price.
C8_Witness ==
  /\ pc = "done"
  /\ orders = <<PlainOrder(1, "BUY", 2, 1), PlainOrder(2, "SELL", 1, 2),
                [PlainOrder(3, "BUY", 1, 2) EXCEPT !.outcomeIndex = 1]>>
  /\ Supplied(0) /\ Supplied(1)
  /\ result.totalCost = 4 /\ result.totalRevenue = 2
  /\ result.realizedProfit = 1 /\ result.openPosition = 2
  /\ result.unrealizedProfit = <<3, 1>> /\ result.totalProfit = <<4, 1>>

QueriedIdx == {i \in DOMAIN orders : IsQueried(orders[i])}
SideIdx(side) == {i \in QueriedIdx : orders[i].side = side}
SizeOver(I) ==
  SumInts([i \in DOMAIN orders |-> IF i \in I THEN OrZero(orders[i].size) ELSE 0])
ValueOver(I) ==
  SumInts([i \in DOMAIN orders |->
             IF i \in I THEN OrZero(orders[i].size) * OrZero(orders[i].price) ELSE 0])
IsAverage(p, I) ==
  IF SizeOver(I) = 0 THEN p = Zero ELSE IsFraction(p, ValueOver(I), SizeOver(I))

\* C9: getWalletStats counts the wallet's BUY and SELL trades, sums their
\* sizes (a missing size is 0), has totalVolume = totalBuyVolume +
\* totalSellVolume, and each average price is sum(size * price) / sum(size)
\* of its side, or 0 when that side's total size is 0.
C9_WalletStats ==
  pc = "profit" =>
    /\ stats.totalTrades = Cardinality(QueriedIdx)
    /\ stats.buyCount = Cardinality(SideIdx("BUY"))
    /\ stats.sellCount = Cardinality(SideIdx("SELL"))
    /\ stats.totalBuyVolume = SizeOver(SideIdx("BUY"))
    /\ stats.totalSellVolume = SizeOver(SideIdx("SELL"))
    /\ stats.totalVolume = stats.totalBuyVolume + stats.totalSellVolume
    /\ IsAverage(stats.averageBuyPrice, SideIdx("BUY"))
    /\ IsAverage(stats.averageSellPrice, SideIdx("SELL"))

\* BUY 1@1, BUY 2@2 and a SELL without size: average buy price 5/3,
\* average sell price 0.
C9_Witness ==
  /\ pc = "profit"
  /\ orders = <<PlainOrder(1, "BUY", 1, 1), PlainOrder(2, "BUY", 2, 2),
                [PlainOrder(3, "SELL", 1, 2) EXCEPT !.size = Undefined]>>
  /\ stats.averageBuyPrice = <<5, 3>>
  /\ stats.averageSellPrice = Zero
  /\ stats.sellCount = 1
  /\ stats.totalVolume = 3

NoTradesOfWallet == \A i \in DOMAIN orders : ~IsQueried(orders[i])

ZeroStats ==
  /\ stats.totalTrades = 0 /\ stats.buyCount = 0 /\ stats.sellCount = 0
  /\ stats.totalBuyVolume = 0 /\ stats.totalSellVolume = 0
  /\ stats.totalVolume = 0
  /\ stats.averageBuyPrice = Zero /\ stats.averageSellPrice = Zero

ZeroProfit ==
  /\ result.totalCost = 0 /\ result.totalRevenue = 0
  /\ result.realizedProfit = 0 /\ result.openPosition = 0
  /\ result.unrealizedProfit = Zero /\ result.totalProfit = Zero
  /\ result.profitByOutcome = <<>>

\* C10: on an empty trade collection, or for a wallet none of whose trades
\* is in the collection, getWalletStats and calculateWalletProfit return
\* results whose numeric fields are all 0 and whose per-outcome map is
\* empty; on an empty collection the three rankings and both price trackers
\* are empty lists, analyzeByPrice is an empty map and getPriceStats is
\* null, whatever the limit, outcome filter, price and interval.
C10_EmptyInput ==
  /\ (NoTradesOfWallet /\ pc \in {"profit", "forEach", "done"}) => ZeroStats
  /\ (NoTradesOfWallet /\ pc = "done") => ZeroProfit
  /\ (orders = <<>> /\ pc = "ranked") =>
       /\ topWallets.byTradeCount = <<>>
       /\ topWallets.byVolume = <<>>
       /\ topWallets.byProfit = <<>>
  /\ (orders = <<>> /\ pc = "priced") =>
       /\ priceReport.priceOverTime = <<>>
       /\ priceReport.priceHistory = <<>>
       /\ priceReport.priceAnalysis = <<>>
       /\ priceReport.priceStats = Null

\* The price functions have returned on the empty collection.
C10_Witness ==
  /\ orders = <<>>
  /\ pc = "priced"
  /\ priceReport.targetPrice = 2
  /\ priceReport.outcomeIndex = 1
  /\ priceReport.priceStats = Null
  /\ priceReport.priceOverTime = <<>>

\* The same wallet string in the other letter case.
Recase(w) ==
  CASE w = "0xabc" -> "0xABC"
    [] w = "0xABC" -> "0xabc"
    [] w = "0xdef" -> "0xDEF"
    [] w = "0xDEF" -> "0xdef"
    [] OTHER -> w

RecaseAt(os, i) == [os EXCEPT ![i].wallet = Recase(@)]
RecaseAll(os) == [i \in DOMAIN os |-> [os[i] EXCEPT !.wallet = Recase(@)]]
\* The collection with one wallet string, or all of them, in the other case.
Recasings(os) == {RecaseAt(os, i) : i \in DOMAIN os} \cup {RecaseAll(os)}

\* a and b are one wallet: equal up to letter case.
SameWallet(a, b) ==
  \/ a = b
  \/ {a, b} \subseteq {"0xabc", "0xABC"}
  \/ {a, b} \subseteq {"0xdef", "0xDEF"}

\* The trades of the queried wallet, in input order.
OwnTrades(os) ==
  SelectSeq(os, LAMBDA o : o.wallet # UndefinedStr /\ SameWallet(o.wallet, QueriedWallet))

\* C11: wallet identity is case-insensitive. Writing any wallet string of
\* the input (one of them or all), or the queried wallet, in the other
\* letter case leaves the results of getWalletStats, calculateWalletProfit,
\* the three rankings, analyzeByPrice and trackPriceByTimestamp unchanged
\* (the echoed `wallet` argument aside), and the result for a wallet is
\* the result on its own trades alone.
C11_CaseInsensitive ==
  /\ pc = "profit" =>
       /\ \A os \in Recasings(orders) : GetWalletStats(os, QueriedWallet) = stats
       /\ [GetWalletStats(orders, Recase(QueriedWallet)) EXCEPT !.wallet = QueriedWallet]
            = stats
       /\ GetWalletStats(OwnTrades(orders), QueriedWallet) = stats
  /\ pc = "done" =>
       /\ \A os \in Recasings(orders) :
            CalculateWalletProfit(os, QueriedWallet, currentPrice) = result
       /\ [CalculateWalletProfit(orders, Recase(QueriedWallet), currentPrice)
             EXCEPT !.wallet = QueriedWallet] = result
       /\ CalculateWalletProfit(OwnTrades(orders), QueriedWallet, currentPrice) = result
  /\ pc = "ranked" =>
       \A os \in Recasings(orders) :
         /\ GetTopWalletsByTradeCount(os, topWallets.limit) = topWallets.byTradeCount
         /\ GetTopWalletsByVolume(os, topWallets.limit) = topWallets.byVolume
         /\ GetTopWalletsByProfit(os, topWallets.limit, NoMap) = topWallets.byProfit
  /\ pc = "priced" =>
       \A os \in Recasings(orders) :
         /\ AnalyzeByPrice(os, priceReport.outcomeIndex) = priceReport.priceAnalysis
         /\ TrackPriceByTimestamp(os, priceReport.outcomeIndex) = priceReport.priceHistory

\* A BUY by "0xabc" and a SELL by "0xABC": the rankings hold one wallet,
\* whose SELL matched the BUY.
C11_Witness ==
  /\ pc = "ranked"
  /\ orders = <<PlainOrder(1, "BUY", 1, 1),
                [PlainOrder(2, "SELL", 1, 2) EXCEPT !.wallet = QueriedWallet]>>
  /\ topWallets.limit = 10
  /\ Len(topWallets.byProfit) = 1
  /\ topWallets.byProfit[1].profit.realizedProfit = 1
  /\ topWallets.byTradeCount[1].totalTrades = 2

PassIdx(x) == {i \in DOMAIN orders : x = Undefined \/ orders[i].outcomeIndex = x}
\* The trades analyzeByPrice with filter x takes into account.
PricedIdx(x) ==
  {i \in PassIdx(x) : orders[i].price # Undefined /\ orders[i].wallet # UndefinedStr}
\* The number of distinct wallets, up to letter case, of the trades in I.
WalletCount(I) ==
  Cardinality({{j \in I : SameWallet(orders[j].wallet, orders[i].wallet)} : i \in I})
AtPrice(I, price, side) == {i \in I : orders[i].price = price /\ orders[i].side = side}

\* C13: analyzeByPrice has exactly one entry per distinct price among the
\* trades that pass the outcome filter and carry a price and a wallet; the
\* entry of a price has the summed sizes, the counts and the numbers of
\* distinct wallets (up to letter case) of that price's BUY and SELL
\* trades, totalVolume = buyVolume + sellVolume and totalTrades =
\* buyTrades + sellTrades.
C13_AnalyzeByPrice ==
  pc = "priced" =>
    LET m == priceReport.priceAnalysis
        I == PricedIdx(priceReport.outcomeIndex)
    IN /\ {m[j].price : j \in DOMAIN m} = {orders[i].price : i \in I}
       /\ \A j, k \in DOMAIN m : m[j].price = m[k].price => j = k
       /\ \A j \in DOMAIN m :
            LET buys == AtPrice(I, m[j].price, "BUY")
                sells == AtPrice(I, m[j].price, "SELL")
            IN /\ m[j].buyVolume = SizeOver(buys)
               /\ m[j].sellVolume = SizeOver(sells)
               /\ m[j].buyTrades = Cardinality(buys)
               /\ m[j].sellTrades = Cardinality(sells)
               /\ m[j].buyWallets = WalletCount(buys)
               /\ m[j].sellWallets = WalletCount(sells)
               /\ m[j].totalVolume = m[j].buyVolume + m[j].sellVolume
               /\ m[j].totalTrades = m[j].buyTrades + m[j].sellTrades

\* BUY 2 by one wallet and SELL 1 by another at the same price: one entry.
C13_Witness ==
  /\ pc = "priced"
  /\ priceReport.outcomeIndex = Undefined
  /\ orders = <<PlainOrder(1, "BUY", 2, 2),
                [PlainOrder(2, "SELL", 1, 2) EXCEPT !.wallet = OtherWallet]>>
  /\ Len(priceReport.priceAnalysis) = 1
  /\ priceReport.priceAnalysis[1].buyVolume = 2
  /\ priceReport.priceAnalysis[1].sellVolume = 1
  /\ priceReport.priceAnalysis[1].totalVolume = 3
  /\ priceReport.priceAnalysis[1].buyWallets = 1
  /\ priceReport.priceAnalysis[1].sellWallets = 1

\* The trades trackPriceOverTime takes into account: they pass the outcome
\* filter and carry a timestamp.
TrackIdx ==
  {i \in PassIdx(trackArgs.outcomeIndex) : orders[i].onChainTimestamp # Undefined}
FirstTimestamp ==
  CHOOSE t \in {orders[i].onChainTimestamp : i \in TrackIdx} :
    \A i \in TrackIdx : t <= orders[i].onChainTimestamp
\* The trades of the window that starts at `start`.
WindowIdx(start) ==
  {i \in TrackIdx : /\ orders[i].onChainTimestamp >= start
                    /\ orders[i].onChainTimestamp < start + trackArgs.intervalSeconds}

\* C14: with a positive interval I, trackPriceOverTime returns one
\* snapshot per non-empty window [first + k*I, first + (k+1)*I), first
\* being the smallest timestamp of the trades that pass the outcome filter
\* and carry a timestamp: the snapshots are stamped with window starts, in
\* strictly ascending order, each with the count, the summed size and the
\* size-weighted average price of exactly the trades of its window, and
\* each such trade lies in the window of exactly one snapshot.
C14_Windows ==
  (pc = "returned" /\ trackArgs.intervalSeconds > 0) =>
    IF TrackIdx = {} THEN snapshots = <<>>
    ELSE /\ \A n \in DOMAIN snapshots :
              /\ snapshots[n].timestamp >= FirstTimestamp
              /\ (snapshots[n].timestamp - FirstTimestamp) % trackArgs.intervalSeconds = 0
              /\ WindowIdx(snapshots[n].timestamp) # {}
              /\ snapshots[n].trades = Cardinality(WindowIdx(snapshots[n].timestamp))
              /\ snapshots[n].volume = SizeOver(WindowIdx(snapshots[n].timestamp))
              /\ IsAverage(snapshots[n].price, WindowIdx(snapshots[n].timestamp))
         /\ \A n, m \in DOMAIN snapshots :
              n < m => snapshots[n].timestamp < snapshots[m].timestamp
         /\ \A i \in TrackIdx :
              Cardinality({n \in DOMAIN snapshots :
                             i \in WindowIdx(snapshots[n].timestamp)}) = 1

\* Timestamps 0, 1, 3 and interval 2: the windows [0, 2) and [2, 4).
C14_Witness ==
  /\ pc = "returned"
  /\ trackArgs = [intervalSeconds |-> 2, outcomeIndex |-> Undefined]
  /\ orders = <<TrackOrder(0, <<1, 1>>), TrackOrder(1, <<2, 2>>),
                TrackOrder(3, <<2, 2>>)>>
  /\ snapshots =
       <<[timestamp |-> 0, price |-> <<5, 3>>, outcomeIndex |-> Undefined,
          volume |-> 3, trades |-> 2],
         [timestamp |-> 2, price |-> <<2, 1>>, outcomeIndex |-> Undefined,
          volume |-> 2, trades |-> 1]>>

\* C15: once trackPriceOverTime has found a trade with a timestamp and
\* entered its loop, it returns, whatever the interval, and what it returns
\* is in ascending timestamp order.
C15_Terminates ==
  /\ (pc = "loopTest") ~> (pc = "returned")
  /\ [](pc = "returned" =>
          \A n, m \in DOMAIN snapshots :
            n < m => snapshots[n].timestamp < snapshots[m].timestamp)

\* C15, the part that holds: with a positive interval the loop is left.
C15_TerminatesPositive ==
  (pc = "loopTest" /\ trackArgs.intervalSeconds > 0) ~> (pc = "returned")

\* The loop has run over an empty window and returned.
C15_Witness ==
  /\ pc = "returned"
  /\ trackArgs.intervalSeconds = 1
  /\ orders = <<TrackOrder(3, <<1, 1>>), TrackOrder(0, <<2, 2>>)>>
  /\ Len(snapshots) = 2
  /\ currentBucketStart = 4

\* The trades trackPriceByTimestamp with filter x takes into account.
StampedIdx(x) == {i \in PassIdx(x) : orders[i].onChainTimestamp # Undefined}
AtTime(I, t, side) == {i \in I : orders[i].onChainTimestamp = t /\ orders[i].side = side}
WithWallet(I) == {i \in I : orders[i].wallet # UndefinedStr}

\* C16: trackPriceByTimestamp returns one snapshot per distinct timestamp
\* of the trades that pass the outcome filter and carry a timestamp, in
\* strictly ascending order; the BUY figures of a snapshot (size-weighted
\* price, records, distinct wallets up to letter case, volume) are those
\* of the BUY trades at that timestamp, the SELL figures those of the SELL
\* trades, and a side without trade has price 0, 0 records, 0 wallets and
\* volume 0.
C16_ByTimestamp ==
  pc = "priced" =>
    LET h == priceReport.priceHistory
        I == StampedIdx(priceReport.outcomeIndex)
    IN /\ {h[n].timestamp : n \in DOMAIN h} = {orders[i].onChainTimestamp : i \in I}
       /\ \A n, m \in DOMAIN h : n < m => h[n].timestamp < h[m].timestamp
       /\ \A n \in DOMAIN h :
            LET buys == AtTime(I, h[n].timestamp, "BUY")
                sells == AtTime(I, h[n].timestamp, "SELL")
            IN /\ IsAverage(h[n].buyPrice, buys)
               /\ h[n].buyRecords = Cardinality(buys)
               /\ h[n].buyWallets = WalletCount(WithWallet(buys))
               /\ h[n].buyVolume = SizeOver(buys)
               /\ IsAverage(h[n].sellPrice, sells)
               /\ h[n].sellRecords = Cardinality(sells)
               /\ h[n].sellWallets = WalletCount(WithWallet(sells))
               /\ h[n].sellVolume = SizeOver(sells)
               /\ buys = {} =>
                    /\ h[n].buyPrice = Zero /\ h[n].buyRecords = 0
                    /\ h[n].buyWallets = 0 /\ h[n].buyVolume = 0
               /\ sells = {} =>
                    /\ h[n].sellPrice = Zero /\ h[n].sellRecords = 0
                    /\ h[n].sellWallets = 0 /\ h[n].sellVolume = 0

\* Two BUYs of one wallet at timestamp 0 and no SELL: one snapshot, whose
\* SELL side is the zero filler.
C16_Witness ==
  /\ pc = "priced"
  /\ priceReport.outcomeIndex = 0
  /\ orders = <<PlainOrder(1, "BUY", 1, 1),
                [PlainOrder(2, "BUY", 2, 2) EXCEPT !.onChainTimestamp = 0]>>
  /\ Len(priceReport.priceHistory) = 1
  /\ priceReport.priceHistory[1].buyPrice = <<5, 3>>
  /\ priceReport.priceHistory[1].buyRecords = 2
  /\ priceReport.priceHistory[1].buyWallets = 1
  /\ priceReport.priceHistory[1].sellPrice = Zero
  /\ priceReport.priceHistory[1].sellRecords = 0

\* C17: in every snapshot of trackPriceByTimestamp totalRecords =
\* buyRecords + sellRecords and totalVolume = buyVolume + sellVolume.
C17_Totals ==
  pc = "priced" =>
    \A n \in DOMAIN priceReport.priceHistory :
      LET snap == priceReport.priceHistory[n]
      IN /\ snap.totalRecords = snap.buyRecords + snap.sellRecords
         /\ snap.totalVolume = snap.buyVolume + snap.sellVolume

\* C17, as the code has it: totalVolume is the sum of the two sides, and
\* totalRecords counts every trade at the timestamp, so that it exceeds
\* buyRecords + sellRecords by the number of trades without side.
C17_TotalsOfCode ==
  pc = "priced" =>
    \A n \in DOMAIN priceReport.priceHistory :
      LET snap == priceReport.priceHistory[n]
          I == StampedIdx(priceReport.outcomeIndex)
      IN /\ snap.totalVolume = snap.buyVolume + snap.sellVolume
         /\ snap.totalRecords =
              snap.buyRecords + snap.sellRecords
                + Cardinality(AtTime(I, snap.timestamp, UndefinedStr))

\* One trade without side: a record of neither side.
C17_Witness ==
  /\ pc = "priced"
  /\ priceReport.outcomeIndex = Undefined
  /\ orders = <<[PlainOrder(1, "BUY", 1, 1) EXCEPT !.side = UndefinedStr]>>
  /\ priceReport.priceHistory[1].totalRecords = 1
  /\ priceReport.priceHistory[1].buyRecords = 0
  /\ priceReport.priceHistory[1].sellRecords = 0
  /\ priceReport.priceHistory[1].totalVolume = 0

\* One trade per wallet of the collection: the first of each.
FirstOfWallet ==
  {i \in WithWallet(DOMAIN orders) :
     \A j \in 1..(i - 1) : ~SameWallet(orders[j].wallet, orders[i].wallet)}
TradesOf(w) == {i \in DOMAIN orders : SameWallet(orders[i].wallet, w)}
TradeCountOf(w) == Cardinality(TradesOf(w))
VolumeOf(w) == SizeOver({i \in TradesOf(w) : orders[i].side \in Sides})
RealizedOf(w) == CalculateWalletProfit(orders, w, NoMap).realizedProfit

\* keys are the keys of the wallets of a ranking, in its order, and all the
\* key of every wallet of the collection, by the index of its first trade.
IsRanking(wallets, keys, all, limit) ==
  /\ Len(wallets) = Min(limit, Cardinality(FirstOfWallet))
  /\ \A n \in DOMAIN wallets : \E i \in FirstOfWallet :
       SameWallet(orders[i].wallet, wallets[n]) /\ keys[n] = all[i]
  /\ \A n, m \in DOMAIN wallets : n < m =>
       /\ ~SameWallet(wallets[n], wallets[m])
       /\ keys[n] >= keys[m]
  /\ \A i \in FirstOfWallet :
       (\A n \in DOMAIN wallets : ~SameWallet(orders[i].wallet, wallets[n]))
         => \A n \in DOMAIN wallets : all[i] <= keys[n]

\* C18: for a limit >= 0 each ranking has min(limit, number of distinct
\* wallets up to letter case) entries, each wallet at most once, with its
\* own key (totalTrades, totalVolume, realizedProfit), in non-increasing
\* key order; no wallet left out has a larger key than one returned; and
\* getTopWalletsByProfit numbers its entries 1..n.
C18_Rankings ==
  pc = "ranked" =>
    LET byCount == topWallets.byTradeCount
        byVolume == topWallets.byVolume
        byProfit == topWallets.byProfit
    IN /\ IsRanking([n \in DOMAIN byCount |-> byCount[n].wallet],
                    [n \in DOMAIN byCount |-> byCount[n].totalTrades],
                    [i \in DOMAIN orders |-> TradeCountOf(orders[i].wallet)],
                    topWallets.limit)
       /\ IsRanking([n \in DOMAIN byVolume |-> byVolume[n].wallet],
                    [n \in DOMAIN byVolume |-> byVolume[n].totalVolume],
                    [i \in DOMAIN orders |-> VolumeOf(orders[i].wallet)],
                    topWallets.limit)
       /\ IsRanking([n \in DOMAIN byProfit |-> byProfit[n].profit.wallet],
                    [n \in DOMAIN byProfit |-> byProfit[n].profit.realizedProfit],
                    [i \in DOMAIN orders |-> RealizedOf(orders[i].wallet)],
                    topWallets.limit)
       /\ \A n \in DOMAIN byProfit : byProfit[n].rank = n

\* Two wallets and limit 1: the wallet that lost 1 by its round trip is
\* left out of the profit ranking, and leads the trade-count ranking.
C18_Witness ==
  /\ pc = "ranked"
  /\ topWallets.limit = 1
  /\ orders = <<RankOrder(1, BaseWallet, "BUY", <<2, 2>>),
                RankOrder(2, QueriedWallet, "SELL", <<1, 1>>),
                RankOrder(3, OtherWallet, "BUY", <<1, 1>>)>>
  /\ Len(topWallets.byProfit) = 1
  /\ topWallets.byProfit[1].profit.wallet = "0xdef"
  /\ topWallets.byTradeCount[1].wallet = "0xabc"
  /\ topWallets.byTradeCount[1].totalTrades = 2

\* A line that holds a record: a JSON object, or a CSV row of 10 fields
\* whose size and price are numbers.
WellFormed(line) ==
  \/ line.kind = "object"
  \/ /\ line.kind = "row"
     /\ line.fields >= 10
     /\ line.size \in {"0", "1", "2"}
     /\ line.price \in {"0", "1", "2"}
NumberOfText(text) == CASE text = "0" -> 0 [] text = "1" -> 1 [] text = "2" -> 2
\* The loaded trade is the record of the line (for a CSV row: by its
\* wallet, side, size and price).
IsRecordOf(order, line) ==
  IF line.kind = "object" THEN order = line.value
  ELSE /\ order.wallet = line.wallet
       /\ order.side = line.side
       /\ order.size = NumberOfText(line.size)
       /\ order.price = NumberOfText(line.price)

\* C19: a loader returns the records of the well-formed lines of its
\* input, all of them, in input order, and nothing else: only the lines
\* that do not parse are missing.
C19_Loaders ==
  pc = "loaded" =>
    LET kept == SelectSeq(fileLines, WellFormed)
    IN /\ Len(loaded) = Len(kept)
       /\ \A k \in DOMAIN kept : IsRecordOf(loaded[k], kept[k])

\* The rows readSessionCSVFiles keeps: 10 fields, a size that is a number
\* other than 0 and a price that is a number above 0.
KeptByCode(line) ==
  \/ line.kind = "object"
  \/ /\ line.kind = "row"
     /\ line.fields >= 10
     /\ line.size \in {"1", "2"}
     /\ line.price \in {"1", "2"}

\* C19, as the code has it: no line makes a loader fail; readOrdersMatched
\* returns the records of the lines that are JSON objects, in order, and
\* readSessionCSVFiles the records of the rows of 10 fields with a
\* non-zero size and a positive price, in order, passing over the
\* well-formed rows whose size or price is 0.
C19_LoadersOfCode ==
  pc = "loaded" =>
    LET kept == SelectSeq(fileLines, KeptByCode)
    IN /\ Len(loaded) = Len(kept)
       /\ \A k \in DOMAIN kept : IsRecordOf(loaded[k], kept[k])

\* A row with size 0 before a row with size 1: only the second is loaded.
C19_Witness ==
  /\ pc = "loaded"
  /\ loader = "readSessionCSVFiles"
  /\ Len(fileLines) = 2
  /\ fileLines[1].kind = "row" /\ fileLines[1].fields = 10
  /\ fileLines[1].size = "0" /\ fileLines[1].price = "2"
  /\ fileLines[2].kind = "row" /\ fileLines[2].fields = 10
  /\ fileLines[2].size = "1" /\ fileLines[2].price = "2"
  /\ Len(loaded) = 1
  /\ loaded[1].size = 1

OfOutcome(os, outcomeIndex) == SelectSeq(os, LAMBDA o : o.outcomeIndex = outcomeIndex)
SideSize(os, side) ==
  SumInts([i \in DOMAIN os |-> IF os[i].side = side THEN OrZero(os[i].size) ELSE 0])
Front(os) == SubSeq(os, 1, Len(os) - 1)
Last(os) == os[Len(os)]

RECURSIVE Replay(_)
\* The trades os replayed on sizes alone: `held` is the number of shares
\* bought and not yet sold, `unmatched` the number of shares sold that met
\* no share to sell, summed over the SELLs.
Replay(os) ==
  IF os = <<>> THEN [held |-> 0, unmatched |-> 0]
  ELSE LET before == Replay(Front(os))
           size == OrZero(Last(os).size)
           matched == Min(size, before.held)
       IN IF Last(os).side = "BUY" THEN [before EXCEPT !.held = @ + size]
          ELSE IF Last(os).side = "SELL"
               THEN [held |-> before.held - matched,
                     unmatched |-> before.unmatched + size - matched]
               ELSE before

\* C20: after any prefix of the wallet's trades, an outcome's openPosition
\* is the summed size of its BUYs minus that of its SELLs, which is the
\* summed size of the lots in its queue minus the size its SELLs were left
\* unmatched by; so it is the size held in the queue when no SELL was left
\* unmatched.
C20_Position ==
  InProfit =>
    \A j \in DOMAIN profitByOutcome :
      LET data == profitByOutcome[j]
          os == OfOutcome(Processed, data.outcomeIndex)
          replay == Replay(os)
          inQueue == QueueSize(data.buyQueue)
      IN /\ data.openPosition = SideSize(os, "BUY") - SideSize(os, "SELL")
         /\ inQueue = replay.held
         /\ data.openPosition = inQueue - replay.unmatched
         /\ replay.unmatched = 0 => data.openPosition = inQueue

\* BUY 1, SELL 2, BUY 2: two shares in the queue, one share unmatched,
\* position 1.
C20_Witness ==
  /\ pc = "forEach" /\ idx = 4
  /\ walletOrders = <<PlainOrder(1, "BUY", 1, 1), PlainOrder(2, "SELL", 2, 2),
                      PlainOrder(3, "BUY", 2, 1)>>
  /\ profitByOutcome[1].openPosition = 1
  /\ QueueSize(profitByOutcome[1].buyQueue) = 2

\* The outcome's SELLs up to here all found the lots they asked for.
NeverOversold(os) == Replay(os).unmatched = 0

\* C21: while no SELL of an outcome has exceeded the lots available to it,
\* after any prefix of its trades realizedProfit is what its SELLs brought in,
\* minus what its BUYs cost, plus the cost of the lots still queued; so when
\* the queue is empty at the end, the realizedProfit returned for the outcome
\* is its total revenue minus its total cost.
C21_Conservation ==
  /\ InProfit =>
       \A j \in DOMAIN profitByOutcome :
         LET data == profitByOutcome[j]
             os == OfOutcome(Processed, data.outcomeIndex)
         IN NeverOversold(os) =>
              data.realizedProfit =
                SideValue(os, "SELL") - SideValue(os, "BUY")
                  + RemainingBuyValue(data.buyQueue)
  /\ pc = "done" =>
       \A j \in DOMAIN result.profitByOutcome :
         LET out == result.profitByOutcome[j]
             os == OfOutcome(walletOrders, out.outcomeIndex)
         IN (NeverOversold(os) /\ QueueSize(profitByOutcome[j].buyQueue) = 0) =>
              out.realizedProfit =
                OutcomeTotalRevenue(walletOrders, out.outcomeIndex)
                  - OutcomeTotalCost(walletOrders, out.outcomeIndex)

\* A lot of 2 bought at 2, one share sold at 1 and the other at 2: a loss
\* of 1 with one share still queued, and of 1 once the position is closed.
C21_Witness ==
  /\ pc = "done"
  /\ orders = <<LedgerOrder(1, "BUY", <<2, 2>>, 0), LedgerOrder(2, "SELL", <<1, 1>>, 0),
                LedgerOrder(3, "SELL", <<1, 2>>, 0)>>
  /\ profitByOutcome[1].buyQueue = <<>>
  /\ result.profitByOutcome[1].realizedProfit = -1
  /\ result.totalRevenue = 3 /\ result.totalCost = 4

\* A step of the forEach loop leaves the data of every outcome but the
\* trade's own as it was.
C22_OtherOutcomesKept ==
  ProcessOrder =>
    \A j \in DOMAIN profitByOutcome :
      profitByOutcome[j].outcomeIndex # ThisOrder.outcomeIndex =>
        /\ j \in DOMAIN profitByOutcome'
        /\ profitByOutcome'[j] = profitByOutcome[j]

\* What the loop has for an outcome is what it has when given the trades of
\* that outcome alone, and so is what calculateWalletProfit returns for it.
C22_OutcomeAlone ==
  /\ pc = "forEach" =>
       \A j \in DOMAIN profitByOutcome :
         ForEachOrder(<<>>, OfOutcome(Processed, profitByOutcome[j].outcomeIndex))
           = <<profitByOutcome[j]>>
  /\ pc = "done" =>
       \A j \in DOMAIN profitByOutcome :
         LET own == OfOutcome(orders, profitByOutcome[j].outcomeIndex)
             alone == CalculateWalletProfit(own, QueriedWallet, currentPrice)
         IN /\ ForEachOrder(<<>>, SortByTimestamp(WalletOrdersOf(own, QueriedWallet)))[1].buyQueue
                 = profitByOutcome[j].buyQueue
            /\ alone.profitByOutcome = <<result.profitByOutcome[j]>>
            /\ alone.unrealizedProfit = unrealized[j]

\* C22: the outcomes of a wallet are accounted each on its own: the lot
\* queue, realizedProfit, openPosition, averageBuyPrice, averageSellPrice and
\* unrealized profit of an outcome are those of the wallet's trades of that
\* outcome alone, whatever its trades of other outcomes are, and a BUY or
\* SELL changes no other outcome's data.
C22_Independent == []C22_OutcomeAlone /\ [][C22_OtherOutcomesKept]_vars

\* A lot bought in outcome 0, a SELL in outcome 1 that finds no lot, and a
\* SELL in outcome 0 that takes the lot.
C22_Witness ==
  /\ pc = "done"
  /\ orders = <<LedgerOrder(1, "BUY", <<1, 1>>, 0), LedgerOrder(2, "SELL", <<1, 2>>, 1),
                LedgerOrder(3, "SELL", <<1, 2>>, 0)>>
  /\ result.profitByOutcome[1].realizedProfit = 1
  /\ result.profitByOutcome[1].openPosition = 0
  /\ result.profitByOutcome[2].realizedProfit = 0
  /\ result.profitByOutcome[2].openPosition = -1

\* The rearrangements of a collection of n trades: f[i] is the input
\* position of the trade that comes i-th.
Rearrangements(n) == {f \in [1..n -> 1..n] : \A i, j \in 1..n : f[i] = f[j] => i = j}
Rearranged(os, f) == [i \in DOMAIN os |-> os[f[i]]]

\* Two trades carry the same timestamp, or both carry none.
SameTimestamp(a, b) == a.onChainTimestamp = b.onChainTimestamp
\* Two trades compare equal in the sort: a missing timestamp counts as 0.
SameKey(a, b) == TimestampKey(a) = TimestampKey(b)

\* f keeps the input order of the trades with the same timestamp / key.
KeepsSameTimestamp(os, f) ==
  \A i, j \in DOMAIN os : (i < j /\ SameTimestamp(os[f[i]], os[f[j]])) => f[i] < f[j]
KeepsSameKey(os, f) ==
  \A i, j \in DOMAIN os : (i < j /\ SameKey(os[f[i]], os[f[j]])) => f[i] < f[j]

\* realizedProfit and openPosition per outcome are those of `result`.
SamePerOutcome(other) ==
  /\ Len(other.profitByOutcome) = Len(result.profitByOutcome)
  /\ \A j \in DOMAIN result.profitByOutcome :
       \E k \in DOMAIN other.profitByOutcome :
         /\ other.profitByOutcome[k].outcomeIndex = result.profitByOutcome[j].outcomeIndex
         /\ other.profitByOutcome[k].realizedProfit = result.profitByOutcome[j].realizedProfit
         /\ other.profitByOutcome[k].openPosition = result.profitByOutcome[j].openPosition

\* C23 as stated: the trades of one timestamp, or both without timestamp,
\* are processed in input order, and a rearranged input that keeps the order
\* of those trades gives the same realizedProfit and openPosition per
\* outcome.
C23_InputOrder ==
  /\ pc = "forEach" =>
       \E f \in Rearrangements(Len(orders)) :
         /\ walletOrders = Rearranged(orders, f)
         /\ KeepsSameTimestamp(orders, f)
  /\ pc = "done" =>
       \A f \in Rearrangements(Len(orders)) :
         KeepsSameTimestamp(orders, f) =>
           SamePerOutcome(CalculateWalletProfit(Rearranged(orders, f), QueriedWallet,
                                                currentPrice))

\* C23, as the code has it: the trades of one sort key (the timestamp, 0 for
\* a missing one) are processed in input order, and a rearranged input that
\* keeps the order of the trades of one key gives the same realizedProfit and
\* openPosition per outcome; so with all keys distinct the input order does
\* not matter.
C23_InputOrderOfKeys ==
  /\ pc = "forEach" =>
       \E f \in Rearrangements(Len(orders)) :
         /\ walletOrders = Rearranged(orders, f)
         /\ KeepsSameKey(orders, f)
  /\ pc = "done" =>
       \A f \in Rearrangements(Len(orders)) :
         KeepsSameKey(orders, f) =>
           SamePerOutcome(CalculateWalletProfit(Rearranged(orders, f), QueriedWallet,
                                                currentPrice))

\* A SELL at time 1 listed first, then two BUYs at time 0: the BUYs are
\* processed first, in input order, and the SELL takes the first of them.
C23_Witness ==
  /\ pc = "done"
  /\ orders = <<OrderedOrder("SELL", <<1, 1>>, 1), OrderedOrder("BUY", <<2, 2>>, 0),
                OrderedOrder("BUY", <<1, 1>>, 0)>>
  /\ walletOrders = <<orders[2], orders[3], orders[1]>>
  /\ result.profitByOutcome[1].realizedProfit = -1
  /\ result.profitByOutcome[1].openPosition = 2

\* The trades persisted so far.
Persisted == SubSeq(orders, 1, idx - 1)
\* n || undefined on a number that was persisted.
ZeroLost(n) == IF n = 0 THEN Undefined ELSE n

\* C24 as stated: the session file read back holds one trade per persisted
\* trade, with the same wallet, side, size, price, outcomeIndex and
\* onChainTimestamp, so the profit computed from the loaded trades is the
\* profit of the persisted ones.
C24_RoundTrip ==
  pc = "loaded" =>
    /\ loaded = Persisted
    /\ CalculateWalletProfit(loaded, BaseWallet, NoMap)
         = CalculateWalletProfit(Persisted, BaseWallet, NoMap)

\* C24, as the code has it: the session file read back holds one trade per
\* persisted trade, with the same wallet, side, size and price, but an
\* outcomeIndex or onChainTimestamp of 0 comes back as absent; the profit
\* computed from the loaded trades has no entry for outcome 0 and is the
\* profit of the persisted trades of the other outcomes.
C24_RoundTripOfCode ==
  pc = "loaded" =>
    /\ Len(loaded) = Len(Persisted)
    /\ \A i \in DOMAIN loaded :
         loaded[i] = [Persisted[i] EXCEPT !.outcomeIndex = ZeroLost(@),
                                          !.onChainTimestamp = ZeroLost(@)]
    /\ LET profit == CalculateWalletProfit(loaded, BaseWallet, NoMap)
       IN /\ \A j \in DOMAIN profit.profitByOutcome :
               profit.profitByOutcome[j].outcomeIndex # 0
          /\ profit = CalculateWalletProfit(
                        SelectSeq(Persisted, LAMBDA o : o.outcomeIndex # 0),
                        BaseWallet, NoMap)

\* A BUY of outcome 0 persisted and read back: it has no outcome index any
\* more, and the wallet has no position.
C24_Witness ==
  /\ pc = "loaded"
  /\ orders = <<PersistedOrder("BUY", <<1, 1>>, 0, 1)>>
  /\ Len(loaded) = 1
  /\ loaded[1].outcomeIndex = Undefined
  /\ loaded[1].size = 1 /\ loaded[1].price = 1 /\ loaded[1].onChainTimestamp = 1
  /\ CalculateWalletProfit(loaded, BaseWallet, NoMap).openPosition = 0
  /\ CalculateWalletProfit(orders, BaseWallet, NoMap).openPosition = 1

\* The websockets of the state that are open.
OpenSockets == {i \in DOMAIN sockets : sockets[i].open}

\* At most one socket of the state is open, and it is the one the state
\* refers to.
C25_AtMostOne ==
  /\ Cardinality(OpenSockets) <= 1
  /\ OpenSockets = IF websocket = NoSocket THEN {} ELSE {websocket}

\* A socket is created only when the reference is cleared and every socket
\* created before is closed.
C25_ClosedBeforeNext ==
  Len(sockets') > Len(sockets) => (websocket = NoSocket /\ OpenSockets = {})

RolloverPending ==
  /\ Len(timers) = 1
  /\ timers[1].kind = "rollover"
  /\ timers[1].nextSlug > currentSlug

\* While a callback or a subscription runs no timer is pending; between
\* them exactly one is, the rollover or the 5 s retry that schedules it.
C26_OneTimer ==
  /\ pc \in {"fetch", "create", "switch"} => timers = <<>>
  /\ pc = "idle" => /\ Len(timers) = 1
                    /\ timers[1].kind = "rollover" => RolloverPending

\* C26: the rollover chain of a slug state never stops: after every rollover
\* timer that fires, whether the subscription gives a socket, gives none or
\* throws, exactly one further rollover gets scheduled, to a later session.
C26_ChainGoesOn == []C26_OneTimer /\ ((pc = "switch") ~> RolloverPending)

\* The market scheduler after the switch to session 2 ended without a
\* socket, all four attempts having failed: the rollover to session 3 is
\* pending.
C26_Witness ==
  /\ program = "market"
  /\ currentSlug = 2
  /\ retryCount = MaxRetries
  /\ websocket = NoSocket
  /\ sockets = <<[slug |-> 1, open |-> FALSE]>>
  /\ timers = <<[kind |-> "rollover", nextSlug |-> 3]>>

\* subscribeToSlug of the market scheduler is running.
InSubscribe == program = "market" /\ pc \in {"fetch", "create"}

\* The attempts of one call carry the retryCounts 0, 1, 2, 3 in turn: a
\* step of the call that leaves it running keeps retryCount or, when it
\* starts the next attempt, raises it by one, whichever of the asset-id
\* fetch and subscribeMarket failed.
C27_NextAttempt ==
  (InSubscribe /\ pc' # "idle") =>
    \/ pc = "fetch" /\ pc' = "create" /\ retryCount' = retryCount
    \/ pc' = "fetch" /\ retryCount' = retryCount + 1 /\ sockets' = sockets

\* The call returns with the socket it created, at once, or with null and
\* the reference cleared.
C27_Return ==
  (InSubscribe /\ pc' = "idle") =>
    IF Len(sockets') > Len(sockets)
    THEN pc = "create" /\ websocket' = Len(sockets') /\ sockets'[websocket'].open
    ELSE websocket' = NoSocket

\* A socket is created by the last step of the call only.
C27_NoRetryAfterSuccess ==
  (InSubscribe /\ Len(sockets') > Len(sockets)) => pc' = "idle"

\* C27: the market-data subscribeToSlug makes at most 4 attempts for one
\* session (retryCount 0..3, asset-id fetch failures and subscribe failures
\* on the same counter), always returns, does not retry after a success, and
\* after the last failed attempt returns null with the reference cleared.
C27_BoundedRetries ==
  /\ [](retryCount \in 0..MaxRetries)
  /\ [][C27_NextAttempt /\ C27_Return /\ C27_NoRetryAfterSuccess]_vars
  /\ (InSubscribe ~> (pc = "idle"))

\* Session 1 after four failed attempts: no socket, and the next session
\* scheduled.
C27_Witness ==
  /\ program = "market"
  /\ pc = "idle"
  /\ currentSlug = 1
  /\ retryCount = MaxRetries
  /\ sockets = <<>>
  /\ websocket = NoSocket

\* A socket was created for the session.
Subscribed(slug) == \E i \in DOMAIN sockets : sockets[i].slug = slug

\* C28 as stated: after the switch to session S threw, the rollover the 5 s
\* retry schedules is the switch to S again, and no session before the
\* current one is left without subscription.
C28_RetrySameSession ==
  /\ (thrown # 0 /\ ~Subscribed(thrown) /\ timers # <<>> /\ timers[1].kind = "rollover")
       => timers[1].nextSlug = thrown
  /\ program = "orders" => \A slug \in 1..(currentSlug - 1) : Subscribed(slug)

\* C28, as the code has it: the callback has set state.currentSlug to S
\* before the subscription throws, so the rollover the 5 s retry schedules
\* is the switch to the session after S, and S gets no socket.
C28_RetryNextSession ==
  thrown # 0 =>
    /\ ~Subscribed(thrown)
    /\ currentSlug >= thrown
    /\ (timers # <<>> /\ timers[1].kind = "rollover")
         => timers[1].nextSlug = currentSlug + 1

\* The switch to session 2 threw and the 5 s timer has fired: the pending
\* rollover is the switch to session 3.
C28_Witness ==
  /\ program = "orders"
  /\ pc = "idle"
  /\ thrown = 2
  /\ currentSlug = 2
  /\ ~Subscribed(2)
  /\ Len(timers) = 1
  /\ timers[1] = [kind |-> "rollover", nextSlug |-> 3]

\* How many times the wallet's .wallet.json was written.
Writes(wallet) ==
  Cardinality({i \in DOMAIN metadataWrites : metadataWrites[i] = wallet})

\* The calls for the wallet that found it absent from the Set and are past
\* saveWalletMapping.
PastSave(wallet) ==
  {i \in DOMAIN persisting :
     /\ persisting[i].wallet = wallet
     /\ ~persisting[i].saved
     /\ persisting[i].at \in {"row", "done"}}

\* C29 as stated: within one subscription the .wallet.json of a wallet is
\* written at most once, whatever the interleaving of the persistMessage
\* calls.
C29_WrittenOnce == \A wallet \in FeedWallets : Writes(wallet) <= 1

\* C29, as the code has it: the test of the Set and the add are separated by
\* the awaits of saveWalletMapping, so every call that found the wallet
\* absent writes the file: there are at most as many writes as such calls
\* past saveWalletMapping, a call that found the wallet in the Set never
\* enters saveWalletMapping, and the wallet is in the Set exactly when one
\* such call is past it.
C29_WrittenOncePerCall ==
  /\ \A wallet \in FeedWallets :
       /\ Writes(wallet) <= Cardinality(PastSave(wallet))
       /\ wallet \in walletsMetadataSaved <=> PastSave(wallet) # {}
  /\ \A i \in DOMAIN persisting :
       persisting[i].saved => persisting[i].at \in {"row", "done"}
  /\ Undefined \notin walletsMetadataSaved

\* Two messages of wallet 1 arrived before the first write was over: both
\* calls found the wallet absent and both wrote the file.
C29_Witness ==
  /\ metadataWrites = <<1, 1>>
  /\ walletsMetadataSaved = {1}
  /\ Len(persisting) >= 2
  /\ persisting[1].wallet = 1 /\ ~persisting[1].saved
  /\ persisting[2].wallet = 1 /\ ~persisting[2].saved

====
